---- MODULE Spec2Model ----
(***************************************************************************)
(* A model of the admin panel server of admin-rod: the credential check,  *)
(* the JWT session tokens, the authentication middleware, the router      *)
(* table, the login/logout handlers, the audit recorder, the audit        *)
(* middleware and the audit reader.                                        *)
(*                                                                         *)
(* Time is a clock of ticks.  jsonwebtoken works in whole seconds         *)
(* (Math.floor(Date.now() / 1000)), the audit log in calendar days; both  *)
(* are scaled down: a second is TicksPerSec ticks and a day is SecPerDay  *)
(* seconds, so that sub-second lifetimes, expiry and the change of day    *)
(* all happen inside the explored horizon.                                 *)
(***************************************************************************)
EXTENDS Integers, Sequences, FiniteSets, TLC

VARIABLES env, now, issued, req, logDir, logFiles,
          store, flight, prisma, tunnelConnection

vars == <<env, now, issued, req, logDir, logFiles,
         store, flight, prisma, tunnelConnection>>

---------------------------------------------------------------------------
(* Bounds of the model *)

TicksPerSec == 2
SecPerDay == 2
MaxClock == 5
MaxTokens == 1
MaxLogLines == 2
\* The lines the log may hold before a request behind auditMiddleware.
MaxAudited == 1
\* The largest value of a numeric column of the datastore.
MaxValue == 1
\* The entity handlers in flight at one time.
MaxFlights == 2

TicksPerDay == TicksPerSec * SecPerDay

---------------------------------------------------------------------------
(* process.env.  An unset variable reads as undefined and an empty one as *)
(* '': the code tests both with !x, so one falsy value stands for both.   *)

Unset == ""

\* The values of JWT_EXPIRES_IN that are explored: unset (the code's '24h'
\* default), a negative, a zero, a sub-second, a one-second span, and a string
\* that the ms package cannot parse.
ExpiresInValues == {Unset, "-1s", "0", "500ms", "1s", "bogus"}

\* JWT_EXPIRES_IN is read only by generateToken after the secret was found
\* and only the login handler calls generateToken, after the credentials were
\* validated: so its value matters only when the secret and both credentials
\* are configured, and it is varied in exactly those configurations.
AuthEnvs ==
  { e \in [JWT_SECRET : {Unset, "k1"}, JWT_EXPIRES_IN : ExpiresInValues,
           ADMIN_USERNAME : {Unset, "root"}, ADMIN_PASSWORD : {Unset, "pw"},
           AUDIT_LOG_ENABLED : {"false"}] :
      e.JWT_EXPIRES_IN # Unset =>
        /\ e.JWT_SECRET # Unset
        /\ e.ADMIN_USERNAME # Unset
        /\ e.ADMIN_PASSWORD # Unset }

\* The configurations of the audit specification: authentication fully
\* configured, persistence switched on or off.
AuditEnvs ==
  [JWT_SECRET : {"k1"}, JWT_EXPIRES_IN : {Unset},
   ADMIN_USERNAME : {"root"}, ADMIN_PASSWORD : {"pw"},
   AUDIT_LOG_ENABLED : {"true", "false"}]

---------------------------------------------------------------------------
(* Credential validator *)

\* Mutant: the password is not compared.
validateUsernameOnly(e, username, password) ==
  IF e.ADMIN_USERNAME = Unset \/ e.ADMIN_PASSWORD = Unset
    THEN FALSE
    ELSE username = e.ADMIN_USERNAME

\* validateAdminCredentials: the value the returned promise resolves to.
\* The body has no throwing operation, so the promise never rejects.
validateAdminCredentials(e, username, password) ==
  IF e.ADMIN_USERNAME = Unset \/ e.ADMIN_PASSWORD = Unset
    THEN FALSE
    ELSE IF username # e.ADMIN_USERNAME
      THEN FALSE
      ELSE password = e.ADMIN_PASSWORD

\* The console.error line of validateAdminCredentials on a missing
\* configuration.
validateConfigErrors(e) ==
  IF e.ADMIN_USERNAME = Unset \/ e.ADMIN_PASSWORD = Unset
    THEN <<"[Auth] ADMIN_USERNAME or ADMIN_PASSWORD not configured">>
    ELSE <<>>

---------------------------------------------------------------------------
(* Session tokens.  A token is its payload {username, iat, exp} and the    *)
(* HMAC of that payload: the MAC is modelled as the key and the signed     *)
(* payload, so that it verifies only under the same key and for the        *)
(* unchanged payload.                                                      *)

Mac(key, username, iat, exp) == <<key, username, iat, exp>>

NoToken == [username |-> "", iat |-> -1, exp |-> -1, mac |-> Mac("", "", -1, -1)]

NoPayload == [username |-> "", iat |-> -1, exp |-> -1]

PayloadOf(t) == [username |-> t.username, iat |-> t.iat, exp |-> t.exp]

\* Math.floor(Date.now() / 1000)
clockTimestamp(t) == t \div TicksPerSec

\* The ms package on the explored values of expiresIn, in ticks.
ms(s) ==
  CASE s = "24h" -> [ok |-> TRUE, ticks |-> TicksPerDay]
    [] s = "-1s" -> [ok |-> TRUE, ticks |-> -TicksPerSec]
    [] s = "0" -> [ok |-> TRUE, ticks |-> 0]
    [] s = "500ms" -> [ok |-> TRUE, ticks |-> TicksPerSec \div 2]
    [] s = "1s" -> [ok |-> TRUE, ticks |-> TicksPerSec]
    [] OTHER -> [ok |-> FALSE, ticks |-> 0]

\* jsonwebtoken's timespan(expiresIn, iat) for a string:
\* Math.floor(iat + ms(expiresIn) / 1000).
timespan(s, iat) == (iat * TicksPerSec + ms(s).ticks) \div TicksPerSec

\* jwt.sign({username}, secret, {expiresIn}) at clock reading t.
jwtSign(username, secret, expiresIn, t) ==
  LET iat == clockTimestamp(t)
      exp == timespan(expiresIn, iat)
  IN  IF ~ms(expiresIn).ok
        THEN [threw |-> TRUE, token |-> NoToken]
        ELSE [threw |-> FALSE,
              token |-> [username |-> username, iat |-> iat, exp |-> exp,
                         mac |-> Mac(secret, username, iat, exp)]]

\* Mutant: the payload carries a fixed name instead of the argument.
generateTokenFixedUser(e, username, t) ==
  IF e.JWT_SECRET = Unset
    THEN [threw |-> TRUE, token |-> NoToken]
    ELSE jwtSign("admin", e.JWT_SECRET,
                 IF e.JWT_EXPIRES_IN = Unset THEN "24h" ELSE e.JWT_EXPIRES_IN, t)

\* Mutant: the secret is not checked before signing.
generateTokenNoSecretCheck(e, username, t) ==
  jwtSign(username, e.JWT_SECRET,
          IF e.JWT_EXPIRES_IN = Unset THEN "24h" ELSE e.JWT_EXPIRES_IN, t)

\* generateToken(username) at clock reading t.
generateToken(e, username, t) ==
  IF e.JWT_SECRET = Unset
    THEN [threw |-> TRUE, token |-> NoToken]
    ELSE jwtSign(username, e.JWT_SECRET,
                 IF e.JWT_EXPIRES_IN = Unset THEN "24h" ELSE e.JWT_EXPIRES_IN, t)

\* jwt.verify(token, secret) at clock reading t: the signature is checked,
\* then the expiry (clockTimestamp >= payload.exp is TokenExpiredError).
jwtVerify(token, secret, t) ==
  IF token.mac # Mac(secret, token.username, token.iat, token.exp)
    THEN [threw |-> TRUE, payload |-> NoPayload]
    ELSE IF clockTimestamp(t) >= token.exp
      THEN [threw |-> TRUE, payload |-> NoPayload]
      ELSE [threw |-> FALSE, payload |-> PayloadOf(token)]

\* Mutant: the token is verified with ignoreExpiration.
verifyTokenIgnoreExpiration(e, token, t) ==
  IF e.JWT_SECRET = Unset
    THEN [kind |-> "threw", payload |-> NoPayload]
    ELSE IF token.mac # Mac(e.JWT_SECRET, token.username, token.iat, token.exp)
      THEN [kind |-> "null", payload |-> NoPayload]
      ELSE [kind |-> "payload", payload |-> PayloadOf(token)]

\* Mutant: the token is verified with maxAge '1s', as a session that the
\* server ends a second after the login.
verifyTokenMaxAge(e, token, t) ==
  IF e.JWT_SECRET = Unset
    THEN [kind |-> "threw", payload |-> NoPayload]
    ELSE LET r == jwtVerify(token, e.JWT_SECRET, t)
         IN  IF r.threw \/ clockTimestamp(t) - token.iat >= 1
               THEN [kind |-> "null", payload |-> NoPayload]
               ELSE [kind |-> "payload", payload |-> r.payload]

\* verifyToken(token) at clock reading t: "threw", "null" or "payload".
verifyToken(e, token, t) ==
  IF e.JWT_SECRET = Unset
    THEN [kind |-> "threw", payload |-> NoPayload]
    ELSE LET r == jwtVerify(token, e.JWT_SECRET, t)
         IN  IF r.threw
               THEN [kind |-> "null", payload |-> NoPayload]
               ELSE [kind |-> "payload", payload |-> r.payload]

---------------------------------------------------------------------------
(* Auth gate *)

\* req.headers.authorization: absent, present without the 'Bearer ' prefix,
\* or 'Bearer ' followed by a token.  Node's HTTP parser strips trailing
\* whitespace from a header value, so a value that starts with 'Bearer '
\* carries at least one more character: the token of a Bearer header is
\* never the empty string.
NoHeader == [scheme |-> "none", token |-> NoToken]

OtherHeader == [scheme |-> "Basic", token |-> NoToken]

Bearer(t) == [scheme |-> "Bearer", token |-> t]

\* Mutant: the cookie is looked at before the header.
extractTokenCookieFirst(header, cookie) ==
  IF cookie # NoToken
    THEN cookie
    ELSE IF header.scheme = "Bearer" THEN header.token ELSE NoToken

\* Lines 108-115 of authMiddleware: the token, or NoToken (undefined or '').
extractToken(header, cookie) ==
  IF header.scheme = "Bearer"
    THEN header.token
    ELSE IF cookie # NoToken THEN cookie ELSE NoToken

\* Mutant: a missing token is not told apart: it goes to verifyToken.
authMiddlewareNoMissingCheck(e, header, cookie, t) ==
  LET token == extractToken(header, cookie)
      v == verifyToken(e, token, t)
  IN  IF v.kind = "threw"
        THEN [threw |-> TRUE, nextCalled |-> FALSE, status |-> 0,
              error |-> "", admin |-> NoPayload]
        ELSE IF v.kind = "null"
          THEN [threw |-> FALSE, nextCalled |-> FALSE, status |-> 401,
                error |-> "Invalid or expired token", admin |-> NoPayload]
          ELSE [threw |-> FALSE, nextCalled |-> TRUE, status |-> 0,
                error |-> "", admin |-> v.payload]

\* Mutant: an invalid token is answered with the missing-token message.
authMiddlewareOneMessage(e, header, cookie, t) ==
  LET token == extractToken(header, cookie)
      v == verifyToken(e, token, t)
  IN  IF token = NoToken
        THEN [threw |-> FALSE, nextCalled |-> FALSE, status |-> 401,
              error |-> "Authentication required", admin |-> NoPayload]
        ELSE IF v.kind = "threw"
          THEN [threw |-> TRUE, nextCalled |-> FALSE, status |-> 0,
                error |-> "", admin |-> NoPayload]
          ELSE IF v.kind = "null"
            THEN [threw |-> FALSE, nextCalled |-> FALSE, status |-> 401,
                  error |-> "Authentication required", admin |-> NoPayload]
            ELSE [threw |-> FALSE, nextCalled |-> TRUE, status |-> 0,
                  error |-> "", admin |-> v.payload]

\* authMiddleware(req, res, next) at clock reading t.  A throw of
\* verifyToken leaves the middleware: Express hands it to the error handler.
authMiddleware(e, header, cookie, t) ==
  LET token == extractToken(header, cookie)
      v == verifyToken(e, token, t)
  IN  IF token = NoToken
        THEN [threw |-> FALSE, nextCalled |-> FALSE, status |-> 401,
              error |-> "Authentication required", admin |-> NoPayload]
        ELSE IF v.kind = "threw"
          THEN [threw |-> TRUE, nextCalled |-> FALSE, status |-> 0,
                error |-> "", admin |-> NoPayload]
          ELSE IF v.kind = "null"
            THEN [threw |-> FALSE, nextCalled |-> FALSE, status |-> 401,
                  error |-> "Invalid or expired token", admin |-> NoPayload]
            ELSE [threw |-> FALSE, nextCalled |-> TRUE, status |-> 0,
                  error |-> "", admin |-> v.payload]

---------------------------------------------------------------------------
(* Router table of routes/index.ts, in mounting order.  An endpoint is a   *)
(* method and path that some handler matches (a mount stands for every     *)
(* handler below it); gate says whether authMiddleware is in its stack.    *)

\* Mutant: the /items mount lacks authMiddleware.
RouterTableOpenMount ==
  << [endpoint |-> "POST /auth/login", gate |-> FALSE, handler |-> "login"],
     [endpoint |-> "POST /auth/logout", gate |-> FALSE, handler |-> "logout"],
     [endpoint |-> "GET /auth/me", gate |-> TRUE, handler |-> "me"],
     [endpoint |-> "GET /health", gate |-> FALSE, handler |-> "health"],
     [endpoint |-> "/dashboard", gate |-> TRUE, handler |-> "entity"],
     [endpoint |-> "/users", gate |-> TRUE, handler |-> "entity"],
     [endpoint |-> "/characters", gate |-> TRUE, handler |-> "entity"],
     [endpoint |-> "/guilds", gate |-> TRUE, handler |-> "entity"],
     [endpoint |-> "/items", gate |-> FALSE, handler |-> "entity"],
     [endpoint |-> "/transactions", gate |-> TRUE, handler |-> "entity"],
     [endpoint |-> "/arena", gate |-> TRUE, handler |-> "entity"],
     [endpoint |-> "GET /audit-logs", gate |-> TRUE, handler |-> "auditLogs"],
     [endpoint |-> "POST /system/broadcast", gate |-> TRUE,
      handler |-> "broadcast"] >>

RouterTable ==
  << [endpoint |-> "POST /auth/login", gate |-> FALSE, handler |-> "login"],
     [endpoint |-> "POST /auth/logout", gate |-> FALSE, handler |-> "logout"],
     [endpoint |-> "GET /auth/me", gate |-> TRUE, handler |-> "me"],
     [endpoint |-> "GET /health", gate |-> FALSE, handler |-> "health"],
     [endpoint |-> "/dashboard", gate |-> TRUE, handler |-> "entity"],
     [endpoint |-> "/users", gate |-> TRUE, handler |-> "entity"],
     [endpoint |-> "/characters", gate |-> TRUE, handler |-> "entity"],
     [endpoint |-> "/guilds", gate |-> TRUE, handler |-> "entity"],
     [endpoint |-> "/items", gate |-> TRUE, handler |-> "entity"],
     [endpoint |-> "/transactions", gate |-> TRUE, handler |-> "entity"],
     [endpoint |-> "/arena", gate |-> TRUE, handler |-> "entity"],
     [endpoint |-> "GET /audit-logs", gate |-> TRUE, handler |-> "auditLogs"],
     [endpoint |-> "POST /system/broadcast", gate |-> TRUE,
      handler |-> "broadcast"] >>

Endpoints == { RouterTable[i].endpoint : i \in DOMAIN RouterTable }

\* A path no route matches: it falls through to the 404 handler of index.ts.
Unmatched == "GET /nowhere"

\* The first layer of the router that matches the endpoint.
Layer(endpoint) ==
  LET hits == { i \in DOMAIN RouterTable : RouterTable[i].endpoint = endpoint }
  IN  IF hits = {}
        THEN [endpoint |-> endpoint, gate |-> FALSE, handler |-> "notFound"]
        ELSE RouterTable[CHOOSE i \in hits : \A j \in hits : i <= j]

---------------------------------------------------------------------------
(* Audit recorder *)

\* new Date().toISOString().split('T')[0]: the calendar day of a clock reading.
dateOf(t) == t \div TicksPerDay

Days == 0 .. (MaxClock \div TicksPerDay)

TotalLines(files) ==
  LET RECURSIVE Sum(_)
      Sum(S) == IF S = {} THEN 0
                ELSE LET d == CHOOSE x \in S : TRUE
                     IN  Len(files[d]) + Sum(S \ {d})
  IN  Sum(DOMAIN files)

\* What the file system does to one write: nothing wrong, mkdirSync throws,
\* or appendFileSync throws.
Faults == {"none", "mkdir", "append"}

\* ensureLogDir(): mkdirSync runs only when the directory does not exist.
ensureLogDir(dir, fault) ==
  IF dir
    THEN [threw |-> FALSE, logDir |-> TRUE]
    ELSE IF fault = "mkdir"
      THEN [threw |-> TRUE, logDir |-> FALSE]
      ELSE [threw |-> FALSE, logDir |-> TRUE]

\* getLogFilePath() at clock reading t: the day that names the file.
getLogFilePath(t) == dateOf(t)

\* An AuditLogEntry.  timestamp is the clock reading that toISOString()
\* prints (the fixed-width ISO-8601 text orders as the reading does); target
\* and metadata are the options of the call, NoTarget and NoMetadata when an
\* option is undefined.
NoTarget == ""

NoMetadata == [path |-> "", params |-> "", statusCode |-> 0, note |-> ""]

\* The changes option: undefined, or a map from field names to {from, to},
\* held as the set of its <<field, from, to>> members.
NoChanges == [given |-> FALSE, map |-> {}]

NoOptions ==
  [target |-> NoTarget, metadata |-> NoMetadata, changes |-> NoChanges]

\* JSON.stringify(entry) + '\n': one line of text that holds the members of
\* the entry whose value is not undefined.
JSONstringify(entry) ==
  [wellFormed |-> TRUE,
   keys |-> {"timestamp", "action", "admin", "ip"}
              \cup (IF entry.target # NoTarget THEN {"target"} ELSE {})
              \cup (IF entry.metadata # NoMetadata THEN {"metadata"} ELSE {})
              \cup (IF entry.changes # NoChanges THEN {"changes"} ELSE {}),
   timestamp |-> entry.timestamp, action |-> entry.action,
   admin |-> entry.admin, target |-> entry.target,
   metadata |-> entry.metadata, changes |-> entry.changes]

\* A line that is not JSON text (a truncated or damaged line).
CorruptLine ==
  [wellFormed |-> FALSE, keys |-> {}, timestamp |-> -1, action |-> "",
   admin |-> "", target |-> NoTarget, metadata |-> NoMetadata,
   changes |-> NoChanges]

\* JSON.parse(line): the object of the text, or a SyntaxError.
JSONparse(line) ==
  IF ~line.wellFormed
    THEN [threw |-> TRUE,
          value |-> [timestamp |-> -1, action |-> "", admin |-> "",
                     target |-> NoTarget, metadata |-> NoMetadata,
                     changes |-> NoChanges]]
    ELSE [threw |-> FALSE,
          value |-> [timestamp |-> line.timestamp, action |-> line.action,
                     admin |-> line.admin,
                     target |-> IF "target" \in line.keys
                                  THEN line.target ELSE NoTarget,
                     metadata |-> IF "metadata" \in line.keys
                                    THEN line.metadata ELSE NoMetadata,
                     changes |-> IF "changes" \in line.keys
                                   THEN line.changes ELSE NoChanges]]

\* Mutant: the write is not wrapped in try/catch.
appendToLogNoCatch(e, dir, files, entry, t, fault) ==
  IF e.AUDIT_LOG_ENABLED # "true"
    THEN [threw |-> FALSE, logDir |-> dir, logFiles |-> files, errors |-> <<>>]
    ELSE LET d == ensureLogDir(dir, fault)
             logPath == getLogFilePath(t)
         IN  IF d.threw \/ fault = "append"
               THEN [threw |-> TRUE, logDir |-> d.logDir, logFiles |-> files,
                     errors |-> <<>>]
               ELSE [threw |-> FALSE, logDir |-> d.logDir,
                     logFiles |-> [files EXCEPT
                                     ![logPath] = Append(@, JSONstringify(entry))],
                     errors |-> <<>>]

\* Mutant: AUDIT_LOG_ENABLED is not looked at.
appendToLogAlways(e, dir, files, entry, t, fault) ==
  LET d == ensureLogDir(dir, fault)
      logPath == getLogFilePath(t)
  IN  IF d.threw \/ fault = "append"
        THEN [threw |-> FALSE, logDir |-> d.logDir, logFiles |-> files,
              errors |-> <<"[Audit] Failed to write log">>]
        ELSE [threw |-> FALSE, logDir |-> d.logDir,
              logFiles |-> [files EXCEPT
                              ![logPath] = Append(@, JSONstringify(entry))],
              errors |-> <<>>]

\* Mutant: the line is put in front of the file's content.
appendToLogPrepend(e, dir, files, entry, t, fault) ==
  IF e.AUDIT_LOG_ENABLED # "true"
    THEN [threw |-> FALSE, logDir |-> dir, logFiles |-> files, errors |-> <<>>]
    ELSE LET d == ensureLogDir(dir, fault)
             logPath == getLogFilePath(t)
         IN  IF d.threw \/ fault = "append"
               THEN [threw |-> FALSE, logDir |-> d.logDir, logFiles |-> files,
                     errors |-> <<"[Audit] Failed to write log">>]
               ELSE [threw |-> FALSE, logDir |-> d.logDir,
                     logFiles |-> [files EXCEPT
                                     ![logPath] = <<JSONstringify(entry)>> \o @],
                     errors |-> <<>>]

\* Mutant: writeFileSync instead of appendFileSync.
appendToLogOverwrite(e, dir, files, entry, t, fault) ==
  IF e.AUDIT_LOG_ENABLED # "true"
    THEN [threw |-> FALSE, logDir |-> dir, logFiles |-> files, errors |-> <<>>]
    ELSE LET d == ensureLogDir(dir, fault)
             logPath == getLogFilePath(t)
         IN  IF d.threw \/ fault = "append"
               THEN [threw |-> FALSE, logDir |-> d.logDir, logFiles |-> files,
                     errors |-> <<"[Audit] Failed to write log">>]
               ELSE [threw |-> FALSE, logDir |-> d.logDir,
                     logFiles |-> [files EXCEPT
                                     ![logPath] = <<JSONstringify(entry)>>],
                     errors |-> <<>>]

\* appendToLog(entry), where getLogFilePath() reads the clock at t.
appendToLog(e, dir, files, entry, t, fault) ==
  IF e.AUDIT_LOG_ENABLED # "true"
    THEN [threw |-> FALSE, logDir |-> dir, logFiles |-> files, errors |-> <<>>]
    ELSE LET d == ensureLogDir(dir, fault)
             logPath == getLogFilePath(t)
         IN  IF d.threw
               THEN [threw |-> FALSE, logDir |-> d.logDir, logFiles |-> files,
                     errors |-> <<"[Audit] Failed to write log">>]
               ELSE IF fault = "append"
                 THEN [threw |-> FALSE, logDir |-> d.logDir, logFiles |-> files,
                       errors |-> <<"[Audit] Failed to write log">>]
                 ELSE [threw |-> FALSE, logDir |-> d.logDir,
                       logFiles |-> [files EXCEPT
                                       ![logPath] = Append(@, JSONstringify(entry))],
                       errors |-> <<>>]

\* The entry that logAuditAction builds at clock reading t (lines 66-75).
EntryOf(admin, action, options, t) ==
  [timestamp |-> t, action |-> action, admin |-> admin,
   target |-> options.target, metadata |-> options.metadata,
   changes |-> options.changes]

\* logAuditAction(admin, action, options).  The clock is read twice: for the
\* entry's timestamp (line 67, reading t) and then, inside appendToLog, for
\* the name of the file (line 33, reading tp >= t).
logAuditAction(e, dir, files, admin, action, options, t, tp, fault) ==
  LET entry == EntryOf(admin, action, options, t)
      a == appendToLog(e, dir, files, entry, tp, fault)
  IN  IF a.threw
        THEN [threw |-> TRUE, logDir |-> a.logDir, logFiles |-> a.logFiles,
              errors |-> a.errors, console |-> <<>>]
        ELSE [threw |-> FALSE, logDir |-> a.logDir, logFiles |-> a.logFiles,
              errors |-> a.errors,
              console |-> << <<"[Audit]", admin, action>> >>]

\* The readings the clock can give at line 33 when it gave t at line 67: the
\* same, or the next one.  With persistence disabled appendToLog returns
\* before line 33 and the clock is read once.
PathClocks(e, t) ==
  IF e.AUDIT_LOG_ENABLED = "true" /\ t < MaxClock THEN {t, t + 1} ELSE {t}

---------------------------------------------------------------------------
(* Audit reader *)

\* startDate / endDate of a call: undefined (or '', equally falsy), or a
\* day written as YYYY-MM-DD, which compares as text the way the days do.
NoDate == -1

DateArgs == {NoDate} \cup Days

\* No file of the directory is unreadable.
NoDay == -1

RECURSIVE Orders(_)
Orders(S) ==
  IF S = {} THEN {<<>>}
  ELSE UNION { { <<x>> \o p : p \in Orders(S \ {x}) } : x \in S }

\* fs.readdirSync(logDir): the daily files that exist, in an order the file
\* system chooses.
Listings(files) == Orders({ d \in DOMAIN files : files[d] # <<>> })

\* Lines 133-134: the file of day fileDate is inside the range.
InRange(fileDate, startDate, endDate) ==
  /\ ~(startDate # NoDate /\ fileDate < startDate)
  /\ ~(endDate # NoDate /\ fileDate > endDate)

\* Lines 139-146 on the content of one file: the parsed lines in the order
\* of the file, and one warning for each line that JSON.parse rejects.
RECURSIVE parseLines(_)
parseLines(lines) ==
  IF lines = <<>>
    THEN [entries |-> <<>>, warnings |-> 0]
    ELSE LET rest == parseLines(Tail(lines))
             p == JSONparse(Head(lines))
         IN  IF p.threw
               THEN [entries |-> rest.entries, warnings |-> rest.warnings + 1]
               ELSE [entries |-> <<p.value>> \o rest.entries,
                     warnings |-> rest.warnings]

\* Array.prototype.sort with (a, b) => b.timestamp.localeCompare(a.timestamp):
\* descending by timestamp, and stable: entries of equal timestamp keep the
\* order in which they were collected.
RECURSIVE sortNewestFirst(_)
sortNewestFirst(entries) ==
  IF entries = <<>>
    THEN <<>>
    ELSE LET n == Len(entries)
             x == entries[n]
             front == sortNewestFirst(SubSeq(entries, 1, n - 1))
             k == Cardinality({ i \in DOMAIN front :
                                  front[i].timestamp >= x.timestamp })
         IN  SubSeq(front, 1, k) \o <<x>> \o SubSeq(front, k + 1, Len(front))

\* Mutant: the entries are returned in the order they were collected.
readFilesUnsorted(files, listing, startDate, endDate, badFile) ==
  LET RECURSIVE loop(_)
      loop(i) ==
        IF i > Len(listing)
          THEN [threw |-> FALSE, entries |-> <<>>, warnings |-> 0]
          ELSE LET d == listing[i]
                   rest == loop(i + 1)
                   p == parseLines(files[d])
               IN  IF ~InRange(d, startDate, endDate)
                     THEN rest
                     ELSE IF d = badFile
                       THEN [threw |-> TRUE, entries |-> <<>>, warnings |-> 0]
                       ELSE [threw |-> rest.threw,
                             entries |-> p.entries \o rest.entries,
                             warnings |-> p.warnings + rest.warnings]
  IN  loop(1)

\* Mutant: the upper bound of the range is exclusive.
readFilesEndExclusive(files, listing, startDate, endDate, badFile) ==
  LET RECURSIVE loop(_)
      loop(i) ==
        IF i > Len(listing)
          THEN [threw |-> FALSE, entries |-> <<>>, warnings |-> 0]
          ELSE LET d == listing[i]
                   rest == loop(i + 1)
                   p == parseLines(files[d])
               IN  IF ~InRange(d, startDate, endDate)
                      \/ (endDate # NoDate /\ d = endDate)
                     THEN rest
                     ELSE IF d = badFile
                       THEN [threw |-> TRUE, entries |-> <<>>, warnings |-> 0]
                       ELSE [threw |-> rest.threw,
                             entries |-> p.entries \o rest.entries,
                             warnings |-> p.warnings + rest.warnings]
      r == loop(1)
  IN  [r EXCEPT !.entries = sortNewestFirst(@)]

\* Mutant: a line that JSON.parse rejects is not caught.
readFilesNoLineCatch(files, listing, startDate, endDate, badFile) ==
  LET RECURSIVE loop(_)
      loop(i) ==
        IF i > Len(listing)
          THEN [threw |-> FALSE, entries |-> <<>>, warnings |-> 0]
          ELSE LET d == listing[i]
                   rest == loop(i + 1)
                   p == parseLines(files[d])
               IN  IF ~InRange(d, startDate, endDate)
                     THEN rest
                     ELSE IF d = badFile \/ p.warnings > 0
                       THEN [threw |-> TRUE, entries |-> <<>>, warnings |-> 0]
                       ELSE [threw |-> rest.threw,
                             entries |-> p.entries \o rest.entries,
                             warnings |-> rest.warnings]
      r == loop(1)
  IN  [r EXCEPT !.entries = sortNewestFirst(@)]

\* Lines 124-149 of readAuditLogs: the loop over the listed files and the
\* sort.  fs.readFileSync throws on the file of day badFile; the loop has no
\* try around it, so the exception leaves readAuditLogs.
readFiles(files, listing, startDate, endDate, badFile) ==
  LET RECURSIVE loop(_)
      loop(i) ==
        IF i > Len(listing)
          THEN [threw |-> FALSE, entries |-> <<>>, warnings |-> 0]
          ELSE LET d == listing[i]
                   rest == loop(i + 1)
                   p == parseLines(files[d])
               IN  IF ~InRange(d, startDate, endDate)
                     THEN rest
                     ELSE IF d = badFile
                       THEN [threw |-> TRUE, entries |-> <<>>, warnings |-> 0]
                       ELSE [threw |-> rest.threw,
                             entries |-> p.entries \o rest.entries,
                             warnings |-> p.warnings + rest.warnings]
      r == loop(1)
  IN  IF r.threw
        THEN [threw |-> TRUE, entries |-> <<>>, warnings |-> r.warnings]
        ELSE [threw |-> FALSE, entries |-> sortNewestFirst(r.entries),
              warnings |-> r.warnings]

\* readAuditLogs(startDate, endDate).
readAuditLogs(dir, files, startDate, endDate, listing, badFile, fault) ==
  LET d == ensureLogDir(dir, fault)
      r == readFiles(files, listing, startDate, endDate, badFile)
  IN  IF d.threw
        THEN [threw |-> TRUE, entries |-> <<>>, warnings |-> 0,
              logDir |-> d.logDir]
        ELSE [threw |-> r.threw, entries |-> r.entries,
              warnings |-> r.warnings, logDir |-> d.logDir]

---------------------------------------------------------------------------
(* Requests.  req is the request the server worked on last, with what the  *)
(* client sent and what the server did for it; phase is "await" while the  *)
(* login handler is suspended at its await and "done" once the response    *)
(* has been sent.                                                          *)

Usernames == {"", "root", "eve"}

Passwords == {"", "pw", "bad"}

\* What an opaque handler under an entity mount may answer.
HandlerStatuses == {200, 400, 404, 500}

NoRequest ==
  [endpoint |-> "", header |-> NoHeader, cookie |-> NoToken, username |-> "",
   password |-> "", phase |-> "idle", fault |-> "none", gated |-> FALSE,
   nextCalled |-> FALSE, admin |-> NoPayload, status |-> 0, error |-> "",
   user |-> "", token |-> NoToken, setCookie |-> NoToken,
   cookieCleared |-> FALSE, isValid |-> FALSE, console |-> <<>>,
   errors |-> <<>>, method |-> "", startDate |-> NoDate, endDate |-> NoDate,
   badFile |-> NoDay, body |-> <<>>, warnings |-> 0]

\* A token signed with a key that is not the server's secret.
Forged ==
  [username |-> "root", iat |-> 0, exp |-> MaxClock + 1,
   mac |-> Mac("k0", "root", 0, MaxClock + 1)]

\* The tokens a client can present: the ones the server issued, and one it
\* built without the secret.
ClientTokens == issued \cup {Forged}

Headers == {NoHeader, OtherHeader} \cup { Bearer(t) : t \in ClientTokens }

Cookies == {NoToken} \cup ClientTokens

\* The error-handling middleware of index.ts (lines 56-59).
errorHandler(r) ==
  [r EXCEPT !.status = 500, !.error = "Internal server error",
            !.errors = Append(@, "[Server] Unhandled error")]

\* router.get('/auth/me')
meHandler(r) == [r EXCEPT !.status = 200, !.user = r.admin.username]

\* router.post('/logout')
logoutHandler(r) == [r EXCEPT !.status = 200, !.cookieCleared = TRUE]

\* router.get('/health')
healthHandler(r) == [r EXCEPT !.status = 200]

\* The 404 handler of index.ts (lines 62-64).
notFoundHandler(r) == [r EXCEPT !.status = 404, !.error = "Not found"]

\* router.get('/audit-logs'): a throw of readAuditLogs reaches the
\* handler's catch.
auditLogsHandler(r, dir, files, startDate, endDate, listing, badFile, fault) ==
  LET q == [r EXCEPT !.startDate = startDate, !.endDate = endDate,
                     !.badFile = badFile]
      logs == readAuditLogs(dir, files, startDate, endDate, listing, badFile,
                            fault)
  IN  IF logs.threw
        THEN [req |-> [q EXCEPT !.status = 500,
                                !.error = "Failed to read audit logs",
                                !.warnings = logs.warnings,
                                !.errors = Append(@, "[Audit] Read logs error")],
              logDir |-> logs.logDir]
        ELSE [req |-> [q EXCEPT !.status = 200, !.body = logs.entries,
                                !.warnings = logs.warnings],
              logDir |-> logs.logDir]

\* router.post('/system/broadcast'): the datastore part answers hstatus; on
\* success the action is recorded before the response.
broadcastHandler(e, r, dir, files, hstatus, t, tp, fault) ==
  LET who == IF r.admin.username # "" THEN r.admin.username ELSE "unknown"
      options == [NoOptions EXCEPT !.metadata.note = "broadcast"]
      a == logAuditAction(e, dir, files, who, "SYSTEM_BROADCAST", options,
                          t, tp, fault)
  IN  CASE hstatus = 400 ->
             [req |-> [r EXCEPT !.status = 400,
                                !.error = "Title and message are required"],
              logDir |-> dir, logFiles |-> files]
        [] hstatus = 200 /\ ~a.threw ->
             [req |-> [r EXCEPT !.status = 200, !.console = @ \o a.console,
                                !.errors = @ \o a.errors],
              logDir |-> a.logDir, logFiles |-> a.logFiles]
        [] hstatus = 200 /\ a.threw ->
             [req |-> [r EXCEPT !.status = 500,
                                !.error = "Failed to send broadcast",
                                !.errors = (@ \o a.errors) \o
                                           <<"[System] Broadcast error">>],
              logDir |-> a.logDir, logFiles |-> a.logFiles]
        [] OTHER ->
             [req |-> [r EXCEPT !.status = 500,
                                !.error = "Failed to send broadcast",
                                !.errors = Append(@, "[System] Broadcast error")],
              logDir |-> dir, logFiles |-> files]

\* Mutant: a failed login is recorded under the submitted username.
loginHandlerNamesUser(e, c, dir, files, t, tp, fault) ==
  LET r == [c EXCEPT !.fault = fault, !.phase = "done"]
      failed == logAuditAction(e, dir, files, c.username, "LOGIN_FAILED",
                               [NoOptions EXCEPT !.metadata.note = c.username],
                               t, tp, fault)
      g == generateToken(e, c.username, t)
      ok == logAuditAction(e, dir, files, c.username, "LOGIN_SUCCESS",
                           NoOptions, t, tp, fault)
      caught(x, a) ==
        [req |-> [x EXCEPT !.status = 500, !.error = "Internal server error",
                           !.errors = (@ \o a.errors) \o <<"[Auth] Login error">>],
         logDir |-> a.logDir, logFiles |-> a.logFiles, issued |-> {}]
  IN  IF ~c.isValid
        THEN IF failed.threw
               THEN caught(r, failed)
               ELSE [req |-> [r EXCEPT !.status = 401,
                                       !.error = "Invalid credentials",
                                       !.console = @ \o failed.console,
                                       !.errors = @ \o failed.errors],
                     logDir |-> failed.logDir, logFiles |-> failed.logFiles,
                     issued |-> {}]
        ELSE IF g.threw
          THEN [req |-> [r EXCEPT !.status = 500,
                                  !.error = "Internal server error",
                                  !.errors = Append(@, "[Auth] Login error")],
                logDir |-> dir, logFiles |-> files, issued |-> {}]
          ELSE IF ok.threw
            THEN caught([r EXCEPT !.setCookie = g.token], ok)
            ELSE [req |-> [r EXCEPT !.status = 200, !.setCookie = g.token,
                                    !.token = g.token, !.user = c.username,
                                    !.console = @ \o ok.console,
                                    !.errors = @ \o ok.errors],
                  logDir |-> ok.logDir, logFiles |-> ok.logFiles,
                  issued |-> {g.token}]

\* router.post('/login') from the await on: c is the suspended request.
loginHandler(e, c, dir, files, t, tp, fault) ==
  LET r == [c EXCEPT !.fault = fault, !.phase = "done"]
      failed == logAuditAction(e, dir, files, "anonymous", "LOGIN_FAILED",
                               [NoOptions EXCEPT !.metadata.note = c.username],
                               t, tp, fault)
      g == generateToken(e, c.username, t)
      ok == logAuditAction(e, dir, files, c.username, "LOGIN_SUCCESS",
                           NoOptions, t, tp, fault)
      caught(x, a) ==
        [req |-> [x EXCEPT !.status = 500, !.error = "Internal server error",
                           !.errors = (@ \o a.errors) \o <<"[Auth] Login error">>],
         logDir |-> a.logDir, logFiles |-> a.logFiles, issued |-> {}]
  IN  IF ~c.isValid
        THEN IF failed.threw
               THEN caught(r, failed)
               ELSE [req |-> [r EXCEPT !.status = 401,
                                       !.error = "Invalid credentials",
                                       !.console = @ \o failed.console,
                                       !.errors = @ \o failed.errors],
                     logDir |-> failed.logDir, logFiles |-> failed.logFiles,
                     issued |-> {}]
        ELSE IF g.threw
          THEN [req |-> [r EXCEPT !.status = 500,
                                  !.error = "Internal server error",
                                  !.errors = Append(@, "[Auth] Login error")],
                logDir |-> dir, logFiles |-> files, issued |-> {}]
          ELSE IF ok.threw
            THEN caught([r EXCEPT !.setCookie = g.token], ok)
            ELSE [req |-> [r EXCEPT !.status = 200, !.setCookie = g.token,
                                    !.token = g.token, !.user = c.username,
                                    !.console = @ \o ok.console,
                                    !.errors = @ \o ok.errors],
                  logDir |-> ok.logDir, logFiles |-> ok.logFiles,
                  issued |-> {g.token}]

\* The route the characters router gives PATCH /:id, below the /characters
\* mount of the router table.
CharacterUpdate == "PATCH /characters/:id"

\* The mount of the router table that an endpoint goes through.
Mount(endpoint) == IF endpoint = CharacterUpdate THEN "/characters" ELSE endpoint

\* The handler that answers an endpoint.
Route(endpoint) ==
  IF endpoint = CharacterUpdate THEN "characterUpdate"
  ELSE Layer(endpoint).handler

\* Mutant: the update is recorded under 'unknown' instead of req.admin.
characterUpdateHandlerUnknown(e, r, dir, files, hstatus, t, tp, fault) ==
  LET options == [NoOptions EXCEPT !.target = "character"]
      a == logAuditAction(e, dir, files, "unknown", "CHARACTER_UPDATE", options,
                          t, tp, fault)
  IN  CASE hstatus = 404 ->
             [req |-> [r EXCEPT !.status = 404, !.error = "Character not found"],
              logDir |-> dir, logFiles |-> files]
        [] hstatus = 200 ->
             [req |-> [r EXCEPT !.status = 200, !.console = @ \o a.console,
                                !.errors = @ \o a.errors],
              logDir |-> a.logDir, logFiles |-> a.logFiles]
        [] OTHER ->
             [req |-> [r EXCEPT !.status = 500,
                                !.error = "Failed to update character",
                                !.errors = Append(@, "[Characters] Update error")],
              logDir |-> dir, logFiles |-> files]

\* router.patch('/:id') of the characters router; hstatus is the answer of
\* its datastore part: 404 when findUnique finds nothing, 200 when the update
\* is made, and anything else a throw (of the schema's parse, of prisma)
\* that the handler's catch answers with 500.
characterUpdateHandler(e, r, dir, files, hstatus, t, tp, fault) ==
  LET who == IF r.admin.username # "" THEN r.admin.username ELSE "unknown"
      options == [NoOptions EXCEPT !.target = "character"]
      a == logAuditAction(e, dir, files, who, "CHARACTER_UPDATE", options,
                          t, tp, fault)
  IN  CASE hstatus = 404 ->
             [req |-> [r EXCEPT !.status = 404, !.error = "Character not found"],
              logDir |-> dir, logFiles |-> files]
        [] hstatus = 200 /\ ~a.threw ->
             [req |-> [r EXCEPT !.status = 200, !.console = @ \o a.console,
                                !.errors = @ \o a.errors],
              logDir |-> a.logDir, logFiles |-> a.logFiles]
        [] hstatus = 200 /\ a.threw ->
             [req |-> [r EXCEPT !.status = 500,
                                !.error = "Failed to update character",
                                !.errors = (@ \o a.errors) \o
                                           <<"[Characters] Update error">>],
              logDir |-> a.logDir, logFiles |-> a.logFiles]
        [] OTHER ->
             [req |-> [r EXCEPT !.status = 500,
                                !.error = "Failed to update character",
                                !.errors = Append(@, "[Characters] Update error")],
              logDir |-> dir, logFiles |-> files]

\* req.method
Methods == {"GET", "POST", "PUT", "PATCH", "DELETE"}

\* The statuses a handler behind auditMiddleware sets before it sends.
SendStatuses == {200, 302, 400}

\* `${actionPrefix}_${req.method}`
ActionLabel(actionPrefix, method) ==
  CASE actionPrefix = "ITEMS" /\ method = "GET" -> "ITEMS_GET"
    [] actionPrefix = "ITEMS" /\ method = "POST" -> "ITEMS_POST"
    [] actionPrefix = "ITEMS" /\ method = "PUT" -> "ITEMS_PUT"
    [] actionPrefix = "ITEMS" /\ method = "PATCH" -> "ITEMS_PATCH"
    [] actionPrefix = "ITEMS" /\ method = "DELETE" -> "ITEMS_DELETE"
    [] OTHER -> "_"

\* Mutant: the status of the response is not looked at.
auditMiddlewareAnyStatus(e, r, actionPrefix, dir, files, t, tp, fault) ==
  LET who == IF r.admin.username # "" THEN r.admin.username ELSE "unknown"
      options == [target |-> NoTarget, changes |-> NoChanges,
                  metadata |-> [path |-> "/7", params |-> "id=7",
                                statusCode |-> r.status, note |-> ""]]
      a == logAuditAction(e, dir, files, who, ActionLabel(actionPrefix, r.method),
                          options, t, tp, fault)
  IN  IF r.method \in {"POST", "PUT", "PATCH", "DELETE"}
        THEN [req |-> [r EXCEPT !.console = @ \o a.console,
                                !.errors = @ \o a.errors],
              logDir |-> a.logDir, logFiles |-> a.logFiles]
        ELSE [req |-> r, logDir |-> dir, logFiles |-> files]

\* The res.send that auditMiddleware(actionPrefix) installs, called by the
\* handler's res.json on request r, whose status is res.statusCode at that
\* moment: lines 88-108.
auditMiddleware(e, r, actionPrefix, dir, files, t, tp, fault) ==
  LET who == IF r.admin.username # "" THEN r.admin.username ELSE "unknown"
      options == [target |-> NoTarget, changes |-> NoChanges,
                  metadata |-> [path |-> "/7", params |-> "id=7",
                                statusCode |-> r.status, note |-> ""]]
      a == logAuditAction(e, dir, files, who, ActionLabel(actionPrefix, r.method),
                          options, t, tp, fault)
  IN  IF r.method \in {"POST", "PUT", "PATCH", "DELETE"} /\ r.status < 400
        THEN [req |-> [r EXCEPT !.console = @ \o a.console,
                                !.errors = @ \o a.errors],
              logDir |-> a.logDir, logFiles |-> a.logFiles]
        ELSE [req |-> r, logDir |-> dir, logFiles |-> files]

---------------------------------------------------------------------------
(* The datastore behind the entity routes, and the handlers that change    *)
(* it.  A handler is suspended at each await of a prisma call, and the     *)
(* calls of the handlers in flight reach the datastore in any order.      *)

\* undefined: a member that is not there.
Undef == -1

\* The values of a numeric column.
Vals == 0 .. MaxValue

\* The columns the model keeps, per table.  experience is in
\* updateCharacterSchema and memberLimit in the guild schema, and neither is
\* in the select of the handler's findUnique.
CharacterColumns == {"gold", "experience"}

StatisticsColumns == {"strength"}

GuildColumns == {"honor", "memberLimit"}

Fields == CharacterColumns \cup StatisticsColumns \cup GuildColumns

\* An object without members.
NoData == [k \in Fields |-> Undef]

\* schema.parse(req.body): z.object strips the keys that are not in the
\* schema, and an optional key that is absent is undefined.
parse(schema, body) ==
  [k \in Fields |-> IF k \in schema THEN body[k] ELSE Undef]

\* The select of the handler's findUnique, per table.
CharacterSelect == {"gold"}

StatisticsSelect == {"strength"}

GuildSelect == {"honor"}

\* prisma.<table>.findUnique({ where, select }) on a row that exists.
findUnique(row, select) ==
  [k \in Fields |-> IF k \in select THEN row[k] ELSE Undef]

\* prisma.<table>.update({ where, data }): the columns of data that are not
\* undefined are set.
update(row, data) ==
  [k \in DOMAIN row |-> IF data[k] # Undef THEN data[k] ELSE row[k]]

\* The changes map of router.patch('/:id') of the characters router.
characterChanges(current, data) ==
  { <<k, current[k], data[k]>> :
      k \in { f \in Fields : data[f] # Undef /\ current[f] # data[f] } }

\* The changes map of router.patch('/:id/stats').
statsChanges(statistics, data) ==
  { <<k, statistics[k], data[k]>> : k \in { f \in Fields : data[f] # Undef } }

\* The changes map of router.patch('/:id') of the guilds router.
guildChanges(current, data) ==
  { <<k, current[k], data[k]>> : k \in { f \in Fields : data[f] # Undef } }

\* The changes map of router.post('/:id/add-currency'); gold is the amount.
currencyChanges(character, gold) ==
  IF gold # Undef /\ gold # 0
    THEN { <<"gold", character["gold"], character["gold"] + gold>> }
    ELSE {}

\* The update routes, the table each one works on, and the action it logs.
CharacterPatch == "PATCH /characters/:id"

StatsPatch == "PATCH /characters/:id/stats"

GuildPatch == "PATCH /guilds/:id"

AddCurrency == "POST /characters/:id/add-currency"

TableOf(handler) ==
  CASE handler = StatsPatch -> "statistics"
    [] handler = GuildPatch -> "guild"
    [] OTHER -> "character"

SchemaOf(handler) ==
  CASE handler = StatsPatch -> StatisticsColumns
    [] handler = GuildPatch -> GuildColumns
    [] handler = AddCurrency -> {"gold"}
    [] OTHER -> CharacterColumns

SelectOf(handler) ==
  CASE handler = StatsPatch -> StatisticsSelect
    [] handler = GuildPatch -> GuildSelect
    [] OTHER -> CharacterSelect

AuditActionOf(handler) ==
  CASE handler = StatsPatch -> "CHARACTER_STATS_UPDATE"
    [] handler = GuildPatch -> "GUILD_UPDATE"
    [] handler = AddCurrency -> "CHARACTER_ADD_CURRENCY"
    [] OTHER -> "CHARACTER_UPDATE"

FailureOf(handler) ==
  CASE handler = StatsPatch -> "Failed to update character statistics"
    [] handler = GuildPatch -> "Failed to update guild"
    [] handler = AddCurrency -> "Failed to add currency"
    [] OTHER -> "Failed to update character"

changesOf(handler, current, data) ==
  CASE handler = StatsPatch -> statsChanges(current, data)
    [] handler = GuildPatch -> guildChanges(current, data)
    [] handler = AddCurrency -> currencyChanges(current, data["gold"])
    [] OTHER -> characterChanges(current, data)

\* The row the datastore holds after the handler's update call.
appliedOf(handler, row, data) ==
  IF handler = AddCurrency
    THEN [row EXCEPT !["gold"] = @ + data["gold"]]
    ELSE update(row, data)

\* The ids a request names: the row that exists, and one that does not.
TheId == "1"

Ids == {TheId, "0"}

\* A handler in flight: the route, where it is suspended, and its locals.
NoFlight ==
  [handler |-> "", pc |-> "idle", id |-> "", data |-> NoData,
   current |-> NoData, status |-> 0, error |-> "", console |-> <<>>]

\* The members of the guild, by characterId, and the ranks of
\* z.enum(['MEMBER', 'OFFICER', 'LEADER']).
Members == {"c1", "c2", "c3"}

Ranks == {"MEMBER", "OFFICER", "LEADER"}

\* The characters that have a ranking in the league, and the ranks of the
\* league: one more rank than rankings, so that one rank has no holder.
Fighters == {"c1", "c2"}

Places == 1 .. Cardinality(Members)

\* The tables at the start: every numeric column is 0, the guild has one
\* leader, and the rankings of the league hold the ranks 1 and 2.
SeedStore ==
  [character |-> [k \in CharacterColumns |-> 0],
   statistics |-> [k \in StatisticsColumns |-> 0],
   guild |-> [k \in GuildColumns |-> 0],
   guildMember |-> [m \in Members |-> IF m = "c1" THEN "LEADER" ELSE "MEMBER"],
   arenaRanking |-> [c \in Fighters |-> IF c = "c1" THEN 1 ELSE 2]]

dataVars == <<store, flight, prisma, tunnelConnection>>

\* The handlers (or, for the log's writers, the processes) that run at one
\* time.
Slots == 1 .. MaxFlights

\* The server while it serves requests: initializeDatabase() has returned
\* (the server entry awaits it before app.listen) on a direct connection, and
\* no entity handler is in flight.
DataServing ==
  /\ store = SeedStore
  /\ flight = <<>>
  /\ prisma = "connected"
  /\ tunnelConnection = "null"

\* A logged line fits the bound on the log.
LogRoom ==
  env.AUDIT_LOG_ENABLED = "true" => TotalLines(logFiles) < MaxLogLines

---------------------------------------------------------------------------
(* Actions *)

Init ==
  /\ env \in AuthEnvs
  /\ now = 0
  /\ issued = {}
  /\ req = NoRequest
  /\ logDir = FALSE
  /\ logFiles = [d \in Days |-> <<>>]
  /\ DataServing

InitAudit ==
  /\ env \in AuditEnvs
  /\ now = 0
  /\ issued = {}
  /\ req = NoRequest
  /\ logDir = FALSE
  /\ logFiles = [d \in Days |-> <<>>]
  /\ DataServing

\* Time passes between two requests and while the login handler is
\* suspended: the synchronous part of a stack runs at one reading of the
\* clock.
Tick ==
  /\ req.phase \in {"idle", "await"}
  /\ now < MaxClock
  /\ now' = now + 1
  /\ UNCHANGED <<env, issued, req, logDir, logFiles>>
  /\ UNCHANGED dataVars

\* The response of the last request has left the server.
Respond ==
  /\ req.phase = "done"
  /\ req' = NoRequest
  /\ UNCHANGED <<env, now, issued, logDir, logFiles>>
  /\ UNCHANGED dataVars

\* The handler of a route, run on request r.  in holds what the handler
\* reads of its environment: the answer of the datastore part, the fault of
\* the file system, the second reading of the clock, and the query and the
\* directory listing of a read.
runHandler(handler, r, in) ==
  LET same(x) == [req |-> x, logDir |-> logDir, logFiles |-> logFiles]
  IN  CASE handler = "logout" -> same(logoutHandler(r))
        [] handler = "health" -> same(healthHandler(r))
        [] handler = "me" -> same(meHandler(r))
        [] handler = "entity" -> same([r EXCEPT !.status = in.hstatus])
        [] handler = "auditLogs" ->
             auditLogsHandler(r, logDir, logFiles, in.startDate, in.endDate,
                              in.listing, in.badFile, in.fault)
               @@ [logFiles |-> logFiles]
        [] handler = "broadcast" ->
             broadcastHandler(env, r, logDir, logFiles, in.hstatus, now, in.tp,
                              in.fault)
        [] handler = "characterUpdate" ->
             characterUpdateHandler(env, r, logDir, logFiles, in.hstatus, now,
                                    in.tp, in.fault)
        [] OTHER -> same(notFoundHandler(r))

\* What the handler of a route reads of the choices the model makes for it.
StatusChoices(handler) ==
  IF handler \in {"entity", "broadcast", "characterUpdate"}
    THEN HandlerStatuses ELSE {200}

FaultChoices(handler) ==
  IF handler \in {"broadcast", "characterUpdate"} THEN Faults
  ELSE IF handler = "auditLogs" THEN {"none", "mkdir"}
  ELSE {"none"}

ClockChoices(handler) ==
  IF handler \in {"broadcast", "characterUpdate"}
    THEN PathClocks(env, now) ELSE {now}

\* A request to one of the endpoints, other than the login: the stack of
\* its mount (authMiddleware if the mount has it, then the handler) runs to
\* the response.  dates and badFiles are the queries and the unreadable files
\* that a read is tried with.
RequestWith(endpoints, headers, cookies, dates, badFiles) ==
  \E endpoint \in endpoints, header \in headers, cookie \in cookies :
    LET layer == Layer(Mount(endpoint))
        handler == Route(endpoint)
        g == authMiddleware(env, header, cookie, now)
        r0 == [NoRequest EXCEPT !.endpoint = endpoint, !.header = header,
                                !.cookie = cookie, !.phase = "done",
                                !.gated = layer.gate]
        r1 == IF layer.gate
                THEN [r0 EXCEPT !.nextCalled = g.nextCalled,
                                !.admin = g.admin, !.status = g.status,
                                !.error = g.error]
                ELSE [r0 EXCEPT !.nextCalled = TRUE]
        reads == handler = "auditLogs"
    IN  /\ req = NoRequest
        /\ UNCHANGED <<env, issued>>
        /\ UNCHANGED dataVars
        /\ IF layer.gate /\ g.threw
             THEN /\ req' = errorHandler(r1)
                  /\ UNCHANGED <<now, logDir, logFiles>>
             ELSE IF ~r1.nextCalled
               THEN /\ req' = r1
                    /\ UNCHANGED <<now, logDir, logFiles>>
               ELSE \E hstatus \in StatusChoices(handler),
                       fault \in FaultChoices(handler),
                       tp \in ClockChoices(handler),
                       startDate \in (IF reads THEN dates ELSE {NoDate}),
                       endDate \in (IF reads THEN dates ELSE {NoDate}),
                       badFile \in (IF reads THEN badFiles ELSE {NoDay}),
                       listing \in (IF reads THEN Listings(logFiles)
                                    ELSE {<<>>}) :
                      LET out == runHandler(handler,
                                            [r1 EXCEPT !.fault = fault],
                                            [hstatus |-> hstatus,
                                             fault |-> fault, tp |-> tp,
                                             startDate |-> startDate,
                                             endDate |-> endDate,
                                             badFile |-> badFile,
                                             listing |-> listing])
                      IN  /\ handler \in {"broadcast", "characterUpdate"}
                               => LogRoom
                          /\ req' = out.req
                          /\ now' = tp
                          /\ logDir' = out.logDir
                          /\ logFiles' = out.logFiles

\* The requests of the authentication specifications: a read of the log is
\* made without a range and with every file readable.
RequestTo(endpoints) ==
  RequestWith(endpoints, Headers, Cookies, {NoDate}, {NoDay})

Request == RequestTo((Endpoints \ {"POST /auth/login"}) \cup {Unmatched})

\* POST /auth/login up to its await: the body check, and the call of
\* validateAdminCredentials, whose body runs before the handler suspends.
LoginArriveWith(usernames, passwords) ==
  \E username \in usernames, password \in passwords :
    LET r == [NoRequest EXCEPT !.endpoint = "POST /auth/login",
                               !.username = username, !.password = password,
                               !.nextCalled = TRUE]
    IN  /\ req = NoRequest
        /\ req' = IF username = "" \/ password = ""
                    THEN [r EXCEPT !.phase = "done", !.status = 400,
                                   !.error = "Username and password are required"]
                    ELSE [r EXCEPT !.phase = "await",
                                   !.isValid = validateAdminCredentials(
                                                 env, username, password),
                                   !.errors = validateConfigErrors(env)]
        /\ UNCHANGED <<env, now, issued, logDir, logFiles>>
        /\ UNCHANGED dataVars

LoginArrive == LoginArriveWith(Usernames, Passwords)

\* POST /auth/login from its await to the response.
LoginResume ==
  \E fault \in Faults, tp \in PathClocks(env, now) :
    LET out == loginHandler(env, req, logDir, logFiles, now, tp, fault)
    IN  /\ req.phase = "await"
        /\ LogRoom
        /\ Cardinality(issued \cup out.issued) <= MaxTokens
        /\ req' = out.req
        /\ issued' = issued \cup out.issued
        /\ now' = tp
        /\ logDir' = out.logDir
        /\ logFiles' = out.logFiles
        /\ UNCHANGED env
        /\ UNCHANGED dataVars

Next == Tick \/ Respond \/ Request \/ LoginArrive \/ LoginResume

\* The audit specification's requests: the endpoints that touch the log,
\* called with or without a token in the Authorization header, and logins
\* under the administrator's name.
AuditRequest ==
  RequestWith({"GET /audit-logs", "POST /system/broadcast"}, Headers,
              {NoToken}, {NoDate}, {NoDay})

AuditLogin == LoginArriveWith({"root"}, Passwords)

NextAudit == Tick \/ Respond \/ AuditRequest \/ AuditLogin \/ LoginResume

Spec == Init /\ [][Next]_vars

SpecAudit == InitAudit /\ [][NextAudit]_vars

---------------------------------------------------------------------------
(* The log specification: one administrator who logs in, updates           *)
(* characters and reads the log with a range, while the files of the log   *)
(* directory can be damaged or made unreadable from outside the server.    *)

LogEnvs ==
  [JWT_SECRET : {"k1"}, JWT_EXPIRES_IN : {Unset},
   ADMIN_USERNAME : {"root"}, ADMIN_PASSWORD : {"pw"},
   AUDIT_LOG_ENABLED : {"true"}]

InitLog ==
  /\ env \in LogEnvs
  /\ now = 0
  /\ issued = {}
  /\ req = NoRequest
  /\ logDir = FALSE
  /\ logFiles = [d \in Days |-> <<>>]
  /\ DataServing

LogLogin == LoginArriveWith({"root"}, {"pw", "bad"})

\* The requests of an administrator who holds an issued token.
Held == { Bearer(t) : t \in issued }

UpdateRequest == RequestWith({CharacterUpdate}, Held, {NoToken}, {NoDate}, {NoDay})

ReadRequest ==
  RequestWith({"GET /audit-logs"}, Held, {NoToken}, DateArgs, {NoDay} \cup Days)

\* Something other than the server leaves a line that is not JSON at the end
\* of a daily file (an interrupted write, an edit by hand).
Corrupt ==
  \E d \in Days :
    /\ req = NoRequest
    /\ logDir
    /\ TotalLines(logFiles) < MaxLogLines
    /\ logFiles' = [logFiles EXCEPT ![d] = Append(@, CorruptLine)]
    /\ UNCHANGED <<env, now, issued, req, logDir>>
    /\ UNCHANGED dataVars

\* A request to a mount that has auditMiddleware(actionPrefix) in front of
\* its handlers, behind authMiddleware or without it (the repository exports
\* the middleware and mounts it nowhere).  The handler sets a status and
\* sends with res.json, which calls the installed res.send once.
AuditedMount == "/audited"

AuditedRequest ==
  \E gate \in BOOLEAN, header \in Held \cup {NoHeader}, method \in Methods,
     status \in SendStatuses, fault \in {"none", "append"},
     tp \in PathClocks(env, now) :
    LET g == authMiddleware(env, header, NoToken, now)
        r0 == [NoRequest EXCEPT !.endpoint = AuditedMount, !.method = method,
                                !.header = IF gate THEN header ELSE NoHeader,
                                !.phase = "done", !.gated = gate,
                                !.fault = fault]
        r1 == IF gate
                THEN [r0 EXCEPT !.nextCalled = g.nextCalled,
                                !.admin = g.admin, !.status = g.status,
                                !.error = g.error]
                ELSE [r0 EXCEPT !.nextCalled = TRUE]
        out == auditMiddleware(env, [r1 EXCEPT !.status = status], "ITEMS",
                               logDir, logFiles, now, tp, fault)
    IN  /\ req = NoRequest
        /\ UNCHANGED <<env, issued>>
        /\ UNCHANGED dataVars
        /\ IF ~r1.nextCalled
             THEN /\ req' = r1
                  /\ UNCHANGED <<now, logDir, logFiles>>
             ELSE /\ env.AUDIT_LOG_ENABLED = "true"
                       => TotalLines(logFiles) < MaxAudited
                  /\ req' = out.req
                  /\ now' = tp
                  /\ logDir' = out.logDir
                  /\ logFiles' = out.logFiles

\* The middleware specification starts where a login at clock reading 0
\* whose write to the log failed has left the server: the administrator
\* holds a token and the log is empty.
InitMw ==
  /\ env \in AuditEnvs
  /\ now = 0
  /\ issued = {generateToken(env, "root", 0).token}
  /\ req = NoRequest
  /\ logDir = FALSE
  /\ logFiles = [d \in Days |-> <<>>]
  /\ DataServing

NextMw == Tick \/ Respond \/ AuditedRequest

SpecMw == InitMw /\ [][NextMw]_vars

NextLog ==
  Tick \/ Respond \/ LogLogin \/ LoginResume \/ UpdateRequest \/ ReadRequest
    \/ Corrupt

SpecLog == InitLog /\ [][NextLog]_vars

---------------------------------------------------------------------------
(* The update routes of the entity routers, step by step.  The requests    *)
(* have passed authMiddleware with a token of the administrator, so that   *)
(* req.admin.username is ADMIN_USERNAME.                                   *)

\* What a prisma call does: it returns, or it rejects (the connection is
\* lost, the row is gone).
DbFaults == {"none", "throw"}

\* The bodies a request to an update route is sent with: each key of the
\* route's schema is absent or holds a value the schema accepts, and the
\* keys outside keys are absent.
Bodies(handler, keys) ==
  { b \in [SchemaOf(handler) -> Vals \cup {Undef}] :
      \A k \in SchemaOf(handler) \ keys : b[k] = Undef }

\* An update handler from the arrival of the request to the await of its
\* findUnique, and the answer of findUnique: getPrisma(), the parse of the
\* body, the 400 of add-currency, the 404 of a row that is not there.
updateHandlerRead(handler, client, id, body, tables, dbfault) ==
  LET f == [NoFlight EXCEPT !.handler = handler, !.id = id,
                            !.data = parse(SchemaOf(handler), body)]
  IN  IF client = "null" \/ dbfault = "throw"
        THEN [f EXCEPT !.pc = "done", !.status = 500,
                       !.error = FailureOf(handler)]
      ELSE IF handler = AddCurrency /\ f.data["gold"] \in {Undef, 0}
        THEN [f EXCEPT !.pc = "done", !.status = 400,
                       !.error = "Specify gold or coins amount"]
      ELSE IF id # TheId
        THEN [f EXCEPT !.pc = "done", !.status = 404, !.error = "Not found"]
      ELSE [f EXCEPT !.pc = "update",
                     !.current = findUnique(tables[TableOf(handler)],
                                            SelectOf(handler))]

\* The options of the handler's logAuditAction call: the target, and the
\* changes map built from the handler's current and data.
auditOptionsOf(f) ==
  [NoOptions EXCEPT
     !.target = TableOf(f.handler),
     !.changes = [given |-> TRUE,
                  map |-> changesOf(f.handler, f.current, f.data)]]

\* Mutant: the entry is written with the asynchronous fs.appendFile, and
\* the response is sent while the write is pending.
updateHandlerWriteDeferred(e, f, tables, dir, files, t, tp, dbfault, fault) ==
  LET table == TableOf(f.handler)
      a == logAuditAction(e, dir, files, e.ADMIN_USERNAME,
                          AuditActionOf(f.handler), auditOptionsOf(f), t, tp,
                          fault)
  IN  IF dbfault = "throw"
        THEN [flight |-> [f EXCEPT !.pc = "done", !.status = 500,
                                   !.error = FailureOf(f.handler)],
              store |-> tables, logDir |-> dir, logFiles |-> files]
        ELSE [flight |-> [f EXCEPT !.pc = "done", !.status = 200,
                                   !.console = a.console],
              store |-> [tables EXCEPT
                           ![table] = appliedOf(f.handler, @, f.data)],
              logDir |-> dir, logFiles |-> files]

\* An update handler from the await of its update call to the response: the
\* update is applied, the changes map is built from the handler's current
\* and data, logAuditAction is called and the response is sent.
updateHandlerWrite(e, f, tables, dir, files, t, tp, dbfault, fault) ==
  LET table == TableOf(f.handler)
      options == auditOptionsOf(f)
      a == logAuditAction(e, dir, files, e.ADMIN_USERNAME,
                          AuditActionOf(f.handler), options, t, tp, fault)
  IN  IF dbfault = "throw"
        THEN [flight |-> [f EXCEPT !.pc = "done", !.status = 500,
                                   !.error = FailureOf(f.handler)],
              store |-> tables, logDir |-> dir, logFiles |-> files]
        ELSE [flight |-> [f EXCEPT !.pc = "done", !.status = 200,
                                   !.console = a.console],
              store |-> [tables EXCEPT
                           ![table] = appliedOf(f.handler, @, f.data)],
              logDir |-> a.logDir, logFiles |-> a.logFiles]

\* A request to one of the handlers arrives at a free slot and runs to the
\* answer of its findUnique.
ReadStep(slots, handlers, ids, keys) ==
  \E i \in slots, handler \in handlers, id \in ids, dbfault \in DbFaults :
    \E body \in Bodies(handler, keys) :
      /\ flight[i].pc = "idle"
      /\ flight' = [flight EXCEPT
                      ![i] = updateHandlerRead(handler, prisma, id, body,
                                               store, dbfault)]
      /\ UNCHANGED <<env, now, issued, req, logDir, logFiles>>
      /\ UNCHANGED <<store, prisma, tunnelConnection>>

\* The update call of a suspended handler reaches the datastore, and the
\* handler runs to its response.
WriteStep(slots, faults) ==
  \E i \in slots, dbfault \in DbFaults, fault \in faults,
     tp \in PathClocks(env, now) :
    LET out == updateHandlerWrite(env, flight[i], store, logDir, logFiles,
                                  now, tp, dbfault, fault)
    IN  /\ flight[i].pc = "update"
        /\ LogRoom
        /\ flight' = [flight EXCEPT ![i] = out.flight]
        /\ store' = out.store
        /\ now' = IF dbfault = "throw" THEN now ELSE tp
        /\ logDir' = out.logDir
        /\ logFiles' = out.logFiles
        /\ UNCHANGED <<env, issued, req, prisma, tunnelConnection>>

\* The response of a handler has left the server.
FlightDone(slots) ==
  \E i \in slots :
    /\ flight[i].pc = "done"
    /\ flight' = [flight EXCEPT ![i] = NoFlight]
    /\ UNCHANGED <<env, now, issued, req, logDir, logFiles>>
    /\ UNCHANGED <<store, prisma, tunnelConnection>>

\* The datastore specifications start with the server serving, persistence
\* of the audit log enabled, and every slot free.
InitData ==
  /\ env \in LogEnvs
  /\ now = 0
  /\ issued = {}
  /\ req = NoRequest
  /\ logDir = FALSE
  /\ logFiles = [d \in Days |-> <<>>]
  /\ store = SeedStore
  /\ flight = [i \in 1 .. MaxFlights |-> NoFlight]
  /\ prisma = "connected"
  /\ tunnelConnection = "null"

\* The diff specification: the three PATCH routes, one request at a time,
\* with a file system that takes every write.
PatchRoutes == {CharacterPatch, StatsPatch, GuildPatch}

DiffRead == ReadStep({1}, PatchRoutes, Ids, Fields)

DiffWrite == WriteStep({1}, {"none"})

DiffDone == FlightDone({1})

NextDiff == DiffRead \/ DiffWrite \/ DiffDone

SpecDiff == InitData /\ [][NextDiff]_vars

\* The race specification: requests that set or add gold on the same
\* character, in flight together.
RaceRead == ReadStep(Slots, {CharacterPatch, AddCurrency}, {TheId}, {"gold"})

RaceWrite == WriteStep(Slots, {"none"})

RaceDone == FlightDone(Slots)

NextRace == RaceRead \/ RaceWrite \/ RaceDone

SpecRace == InitData /\ [][NextRace]_vars

---------------------------------------------------------------------------
(* Several processes of the server that share the log directory.  Inside   *)
(* one process appendToLog runs from its first to its last line without    *)
(* giving up the thread; between processes the system calls of             *)
(* fs.appendFileSync(logPath, line), open with flag 'a' and then write,    *)
(* interleave.                                                             *)

\* A process outside appendToLog.
NoWriter ==
  [pc |-> "idle", entry |-> EntryOf("", "", NoOptions, 0), logPath |-> NoDay,
   size |-> 0]

\* Mutant: the file is opened without O_APPEND and the line is written at
\* the size the file had when it was opened.
writeAtOpenSize(files, w) ==
  [files EXCEPT
     ![w.logPath] = IF Len(@) > w.size
                      THEN [@ EXCEPT ![w.size + 1] = JSONstringify(w.entry)]
                      ELSE Append(@, JSONstringify(w.entry))]

\* The write of appendFileSync under O_APPEND: the whole line, which is one
\* buffer handed to one write call, goes to the end the file has at the time
\* of the write.
write(files, w) ==
  [files EXCEPT ![w.logPath] = Append(@, JSONstringify(w.entry))]

\* logAuditAction in process p up to the open of appendFileSync: the entry
\* is built, ensureLogDir() and getLogFilePath() run, the file is opened.
AppendOpen ==
  \E p \in Slots :
    LET busy == Cardinality({ q \in Slots : flight[q].pc = "open" })
        d == ensureLogDir(logDir, "none")
    IN  /\ flight[p].pc = "idle"
        /\ TotalLines(logFiles) + busy < MaxLogLines
        /\ flight' = [flight EXCEPT
                        ![p] = [pc |-> "open",
                                entry |-> EntryOf(env.ADMIN_USERNAME,
                                                  "SYSTEM_BROADCAST",
                                                  NoOptions, now),
                                logPath |-> getLogFilePath(now),
                                size |-> Len(logFiles[getLogFilePath(now)])]]
        /\ logDir' = d.logDir
        /\ UNCHANGED <<env, now, issued, req, logFiles>>
        /\ UNCHANGED <<store, prisma, tunnelConnection>>

\* The write of process p reaches the file, and appendToLog returns.
AppendWrite ==
  \E p \in Slots :
    /\ flight[p].pc = "open"
    /\ logFiles' = write(logFiles, flight[p])
    /\ flight' = [flight EXCEPT ![p] = NoWriter]
    /\ UNCHANGED <<env, now, issued, req, logDir>>
    /\ UNCHANGED <<store, prisma, tunnelConnection>>

InitWriters ==
  /\ env \in LogEnvs
  /\ now = 0
  /\ issued = {}
  /\ req = NoRequest
  /\ logDir = FALSE
  /\ logFiles = [d \in Days |-> <<>>]
  /\ store = SeedStore
  /\ flight = [p \in Slots |-> NoWriter]
  /\ prisma = "connected"
  /\ tunnelConnection = "null"

NextWriters == Tick \/ AppendOpen \/ AppendWrite

SpecWriters == InitWriters /\ [][NextWriters]_vars

---------------------------------------------------------------------------
(* POST /guilds/:id/change-rank, step by step.                             *)

\* A change-rank handler in flight.  changed is the count that the
\* updateMany of the demotion returned.
NoRankFlight ==
  [pc |-> "idle", characterId |-> "", rank |-> "", oldRank |-> "",
   changed |-> 0, status |-> 0, error |-> "", console |-> <<>>]

\* prisma.guildMember.updateMany({ where: { guildId, rank: 'LEADER' },
\* data: { rank: 'OFFICER' } })
demoteLeaders(members) ==
  [m \in DOMAIN members |->
     IF members[m] = "LEADER" THEN "OFFICER" ELSE members[m]]

\* The handler from the arrival of the request to the answer of findUnique.
changeRankRead(client, characterId, rank, members, dbfault) ==
  LET f == [NoRankFlight EXCEPT !.characterId = characterId, !.rank = rank]
  IN  IF client = "null" \/ dbfault = "throw"
        THEN [f EXCEPT !.pc = "done", !.status = 500,
                       !.error = "Failed to change rank"]
      ELSE IF characterId \notin DOMAIN members
        THEN [f EXCEPT !.pc = "done", !.status = 404,
                       !.error = "Member not found in this guild"]
      ELSE [f EXCEPT !.pc = IF rank = "LEADER" THEN "demote" ELSE "update",
                     !.oldRank = members[characterId]]

\* The step of the handler that demotes the current leader.
changeRankDemote(f, members, dbfault) ==
  IF dbfault = "throw"
    THEN [flight |-> [f EXCEPT !.pc = "done", !.status = 500,
                               !.error = "Failed to change rank"],
          guildMember |-> members]
    ELSE [flight |-> [f EXCEPT
                        !.pc = "update",
                        !.changed = Cardinality({ m \in DOMAIN members :
                                                    members[m] = "LEADER" })],
          guildMember |-> demoteLeaders(members)]

\* The handler from the await of prisma.guildMember.update to its response.
changeRankUpdate(e, f, members, dir, files, t, tp, dbfault, fault) ==
  LET options == [NoOptions EXCEPT
                    !.target = "guild",
                    !.changes = [given |-> TRUE,
                                 map |-> {<<f.characterId, f.oldRank, f.rank>>}]]
      a == logAuditAction(e, dir, files, e.ADMIN_USERNAME, "GUILD_CHANGE_RANK",
                          options, t, tp, fault)
  IN  IF dbfault = "throw"
        THEN [flight |-> [f EXCEPT !.pc = "done", !.status = 500,
                                   !.error = "Failed to change rank"],
              guildMember |-> members, logDir |-> dir, logFiles |-> files]
        ELSE [flight |-> [f EXCEPT !.pc = "done", !.status = 200,
                                   !.console = a.console],
              guildMember |-> [members EXCEPT ![f.characterId] = f.rank],
              logDir |-> a.logDir, logFiles |-> a.logFiles]

RankRead ==
  \E i \in Slots, characterId \in Members \cup {"c0"}, rank \in Ranks,
     dbfault \in DbFaults :
    /\ flight[i].pc = "idle"
    /\ flight' = [flight EXCEPT
                    ![i] = changeRankRead(prisma, characterId, rank,
                                          store.guildMember, dbfault)]
    /\ UNCHANGED <<env, now, issued, req, logDir, logFiles>>
    /\ UNCHANGED <<store, prisma, tunnelConnection>>

RankDemote ==
  \E i \in Slots, dbfault \in DbFaults :
    LET out == changeRankDemote(flight[i], store.guildMember, dbfault)
    IN  /\ flight[i].pc = "demote"
        /\ flight' = [flight EXCEPT ![i] = out.flight]
        /\ store' = [store EXCEPT !.guildMember = out.guildMember]
        /\ UNCHANGED <<env, now, issued, req, logDir, logFiles>>
        /\ UNCHANGED <<prisma, tunnelConnection>>

\* The clock is not advanced in this specification: both readings that
\* logAuditAction takes are the reading of the start.
RankUpdate ==
  \E i \in Slots, dbfault \in DbFaults :
    LET out == changeRankUpdate(env, flight[i], store.guildMember, logDir,
                                logFiles, now, now, dbfault, "none")
    IN  /\ flight[i].pc = "update"
        /\ LogRoom
        /\ flight' = [flight EXCEPT ![i] = out.flight]
        /\ store' = [store EXCEPT !.guildMember = out.guildMember]
        /\ logDir' = out.logDir
        /\ logFiles' = out.logFiles
        /\ UNCHANGED <<env, now, issued, req, prisma, tunnelConnection>>

RankDone ==
  \E i \in Slots :
    /\ flight[i].pc = "done"
    /\ flight' = [flight EXCEPT ![i] = NoRankFlight]
    /\ UNCHANGED <<env, now, issued, req, logDir, logFiles>>
    /\ UNCHANGED <<store, prisma, tunnelConnection>>

InitGuild ==
  /\ env \in LogEnvs
  /\ now = 0
  /\ issued = {}
  /\ req = NoRequest
  /\ logDir = FALSE
  /\ logFiles = [d \in Days |-> <<>>]
  /\ store = SeedStore
  /\ flight = [i \in Slots |-> NoRankFlight]
  /\ prisma = "connected"
  /\ tunnelConnection = "null"

NextGuild == RankRead \/ RankDemote \/ RankUpdate \/ RankDone

SpecGuild == InitGuild /\ [][NextGuild]_vars

---------------------------------------------------------------------------
(* POST /arena/rankings/:characterId/adjust, step by step.                 *)

\* An adjust handler in flight; target is the characterId of targetRanking,
\* "" when findFirst found none.
NoAdjustFlight ==
  [pc |-> "idle", characterId |-> "", newRank |-> 0, oldRank |-> 0,
   target |-> "", status |-> 0, error |-> "", console |-> <<>>]

\* The handler from the arrival of the request to the answer of findUnique.
adjustRead(client, characterId, newRank, rankings, dbfault) ==
  LET f == [NoAdjustFlight EXCEPT !.characterId = characterId,
                                  !.newRank = newRank]
  IN  IF client = "null" \/ dbfault = "throw"
        THEN [f EXCEPT !.pc = "done", !.status = 500,
                       !.error = "Failed to adjust ranking"]
      ELSE IF characterId \notin DOMAIN rankings
        THEN [f EXCEPT !.pc = "done", !.status = 404,
                       !.error = "Ranking not found"]
      ELSE [f EXCEPT !.pc = "find", !.oldRank = rankings[characterId]]

\* The answers findFirst({ where: { leagueId, rank: newRank } }) can give:
\* one of the rankings that hold the rank, or null.
findFirst(rankings, rank) ==
  LET holders == { c \in DOMAIN rankings : rankings[c] = rank }
  IN  IF holders = {} THEN {""} ELSE holders

\* The handler from the answer of findFirst to the await of its update.
adjustFind(f, target, dbfault) ==
  IF dbfault = "throw"
    THEN [f EXCEPT !.pc = "done", !.status = 500,
                   !.error = "Failed to adjust ranking"]
    ELSE [f EXCEPT !.pc = "update", !.target = target]

\* The rank that marks a ranking inside the swap.
TempRank == -1

\* prisma.$transaction([...]) of the swap: the three updates, in order, as
\* one change of the table.
swap(rankings, characterId, target, oldRank, newRank) ==
  LET first == [rankings EXCEPT ![characterId] = TempRank]
      second == [first EXCEPT ![target] = oldRank]
  IN  [second EXCEPT ![characterId] = newRank]

\* The handler from the await of its update (the transaction, or the single
\* update) to its response.
adjustUpdate(e, f, rankings, dir, files, t, tp, dbfault, fault) ==
  LET options == [NoOptions EXCEPT
                    !.target = "character",
                    !.changes = [given |-> TRUE,
                                 map |-> {<<"rank", f.oldRank, f.newRank>>}],
                    !.metadata.note = "league"]
      a == logAuditAction(e, dir, files, e.ADMIN_USERNAME, "ARENA_RANK_ADJUST",
                          options, t, tp, fault)
  IN  IF dbfault = "throw"
        THEN [flight |-> [f EXCEPT !.pc = "done", !.status = 500,
                                   !.error = "Failed to adjust ranking"],
              arenaRanking |-> rankings, logDir |-> dir, logFiles |-> files]
        ELSE [flight |-> [f EXCEPT !.pc = "done", !.status = 200,
                                   !.console = a.console],
              arenaRanking |->
                IF f.target # ""
                  THEN swap(rankings, f.characterId, f.target, f.oldRank,
                            f.newRank)
                  ELSE [rankings EXCEPT ![f.characterId] = f.newRank],
              logDir |-> a.logDir, logFiles |-> a.logFiles]

AdjustRead ==
  \E i \in Slots, characterId \in Fighters \cup {"c0"}, newRank \in Places,
     dbfault \in DbFaults :
    /\ flight[i].pc = "idle"
    /\ flight' = [flight EXCEPT
                    ![i] = adjustRead(prisma, characterId, newRank,
                                      store.arenaRanking, dbfault)]
    /\ UNCHANGED <<env, now, issued, req, logDir, logFiles>>
    /\ UNCHANGED <<store, prisma, tunnelConnection>>

AdjustFind ==
  \E i \in Slots, dbfault \in DbFaults :
    \E target \in findFirst(store.arenaRanking, flight[i].newRank) :
      /\ flight[i].pc = "find"
      /\ flight' = [flight EXCEPT ![i] = adjustFind(flight[i], target, dbfault)]
      /\ UNCHANGED <<env, now, issued, req, logDir, logFiles>>
      /\ UNCHANGED <<store, prisma, tunnelConnection>>

\* The clock is not advanced in this specification: both readings that
\* logAuditAction takes are the reading of the start.
AdjustUpdate ==
  \E i \in Slots, dbfault \in DbFaults :
    LET out == adjustUpdate(env, flight[i], store.arenaRanking, logDir,
                            logFiles, now, now, dbfault, "none")
    IN  /\ flight[i].pc = "update"
        /\ LogRoom
        /\ flight' = [flight EXCEPT ![i] = out.flight]
        /\ store' = [store EXCEPT !.arenaRanking = out.arenaRanking]
        /\ logDir' = out.logDir
        /\ logFiles' = out.logFiles
        /\ UNCHANGED <<env, now, issued, req, prisma, tunnelConnection>>

AdjustDone ==
  \E i \in Slots :
    /\ flight[i].pc = "done"
    /\ flight' = [flight EXCEPT ![i] = NoAdjustFlight]
    /\ UNCHANGED <<env, now, issued, req, logDir, logFiles>>
    /\ UNCHANGED <<store, prisma, tunnelConnection>>

InitArena ==
  /\ env \in LogEnvs
  /\ now = 0
  /\ issued = {}
  /\ req = NoRequest
  /\ logDir = FALSE
  /\ logFiles = [d \in Days |-> <<>>]
  /\ store = SeedStore
  /\ flight = [i \in Slots |-> NoAdjustFlight]
  /\ prisma = "connected"
  /\ tunnelConnection = "null"

NextArena == AdjustRead \/ AdjustFind \/ AdjustUpdate \/ AdjustDone

SpecArena == InitArena /\ [][NextArena]_vars

---------------------------------------------------------------------------
(* config/database.ts: the module's client and tunnel handles, and the     *)
(* calls of initializeDatabase and closeDatabase in flight.  prisma is     *)
(* "null", "untested" (a PrismaClient whose $connect has not succeeded) or *)
(* "connected"; tunnelConnection is "null" or "open".                      *)

\* process.env as the module reads it; getSSHTunnelConfigFromEnv() is not
\* null when USE_SSH_TUNNEL is 'true' and the SSH settings are there.
DbEnvs ==
  [USE_SSH_TUNNEL : {"true", "false"}, DATABASE_URL_PROD : {Unset, "url"},
   DATABASE_URL : {Unset, "url"}]

\* getPrisma()
getPrisma(client) == [threw |-> client = "null", client |-> client]

\* A call that has not been made.  returned is what the call handed back.
NoCall == [fn |-> "", pc |-> "idle", threw |-> FALSE, returned |-> "null"]

\* The part of initializeDatabase after the tunnel: the url is checked and
\* the client is constructed (lines 21-31 and 40-51), up to the await of
\* $connect.
construct(c, url) ==
  IF url = Unset
    THEN [call |-> [c EXCEPT !.pc = "done", !.threw = TRUE], prisma |-> "null"]
    ELSE [call |-> [c EXCEPT !.pc = "connect"], prisma |-> "untested"]

\* initializeDatabase() up to its first await.
InitializeStart ==
  \E i \in Slots :
    LET c == [NoCall EXCEPT !.fn = "initializeDatabase"]
        direct == construct(c, env.DATABASE_URL)
    IN  /\ flight[i].pc = "idle"
        /\ IF prisma # "null"
             THEN /\ flight' = [flight EXCEPT
                                  ![i] = [c EXCEPT !.pc = "done",
                                                   !.returned = prisma]]
                  /\ UNCHANGED prisma
             ELSE IF env.USE_SSH_TUNNEL = "true"
               THEN /\ flight' = [flight EXCEPT ![i] = [c EXCEPT !.pc = "tunnel"]]
                    /\ UNCHANGED prisma
               ELSE /\ flight' = [flight EXCEPT ![i] = direct.call]
                    /\ prisma' = direct.prisma
        /\ UNCHANGED <<env, now, issued, req, logDir, logFiles>>
        /\ UNCHANGED <<store, tunnelConnection>>

\* createSSHTunnel resolves or rejects, and initializeDatabase goes on to
\* the await of $connect.
TunnelSettles ==
  \E i \in Slots, resolves \in BOOLEAN :
    LET made == construct(flight[i], env.DATABASE_URL_PROD)
    IN  /\ flight[i].pc = "tunnel"
        /\ IF resolves
             THEN /\ tunnelConnection' = "open"
                  /\ flight' = [flight EXCEPT ![i] = made.call]
                  /\ prisma' = IF made.call.threw THEN prisma ELSE made.prisma
             ELSE /\ flight' = [flight EXCEPT
                                  ![i] = [@ EXCEPT !.pc = "done", !.threw = TRUE]]
                  /\ UNCHANGED <<prisma, tunnelConnection>>
        /\ UNCHANGED <<env, now, issued, req, logDir, logFiles, store>>

\* prisma.$connect() resolves or rejects, and initializeDatabase returns the
\* module's prisma or throws.
ConnectSettles ==
  \E i \in Slots, resolves \in BOOLEAN :
    /\ flight[i].pc = "connect"
    /\ IF resolves
         THEN /\ prisma' = IF prisma = "null" THEN "null" ELSE "connected"
              /\ flight' = [flight EXCEPT
                              ![i] = [@ EXCEPT !.pc = "done",
                                               !.returned = prisma']]
         ELSE /\ flight' = [flight EXCEPT
                              ![i] = [@ EXCEPT !.pc = "done", !.threw = TRUE]]
              /\ UNCHANGED prisma
    /\ UNCHANGED <<env, now, issued, req, logDir, logFiles>>
    /\ UNCHANGED <<store, tunnelConnection>>

\* closeDatabase() up to its first await.
CloseStart ==
  \E i \in Slots :
    LET c == [NoCall EXCEPT !.fn = "closeDatabase"]
    IN  /\ flight[i].pc = "idle"
        /\ flight' = [flight EXCEPT
                        ![i] = [c EXCEPT
                                  !.pc = IF prisma # "null" THEN "disconnect"
                                         ELSE IF tunnelConnection # "null"
                                           THEN "close" ELSE "done"]]
        /\ UNCHANGED <<env, now, issued, req, logDir, logFiles>>
        /\ UNCHANGED <<store, prisma, tunnelConnection>>

\* prisma.$disconnect() resolves: prisma = null, then the tunnel is looked at.
DisconnectSettles ==
  \E i \in Slots :
    /\ flight[i].pc = "disconnect"
    /\ prisma' = "null"
    /\ flight' = [flight EXCEPT
                    ![i] = [@ EXCEPT !.pc = IF tunnelConnection # "null"
                                              THEN "close" ELSE "done"]]
    /\ UNCHANGED <<env, now, issued, req, logDir, logFiles>>
    /\ UNCHANGED <<store, tunnelConnection>>

\* tunnelConnection.close() resolves: tunnelConnection = null.
TunnelCloses ==
  \E i \in Slots :
    /\ flight[i].pc = "close"
    /\ tunnelConnection' = "null"
    /\ flight' = [flight EXCEPT ![i] = [@ EXCEPT !.pc = "done"]]
    /\ UNCHANGED <<env, now, issued, req, logDir, logFiles>>
    /\ UNCHANGED <<store, prisma>>

\* The caller has taken the outcome of the call.
CallReturns ==
  \E i \in Slots :
    /\ flight[i].pc = "done"
    /\ flight' = [flight EXCEPT ![i] = NoCall]
    /\ UNCHANGED <<env, now, issued, req, logDir, logFiles>>
    /\ UNCHANGED <<store, prisma, tunnelConnection>>

InitDb ==
  /\ env \in DbEnvs
  /\ now = 0
  /\ issued = {}
  /\ req = NoRequest
  /\ logDir = FALSE
  /\ logFiles = [d \in Days |-> <<>>]
  /\ store = SeedStore
  /\ flight = [i \in Slots |-> NoCall]
  /\ prisma = "null"
  /\ tunnelConnection = "null"

NextDb ==
  InitializeStart \/ TunnelSettles \/ ConnectSettles \/ CloseStart
    \/ DisconnectSettles \/ TunnelCloses \/ CallReturns

SpecDb == InitDb /\ [][NextDb]_vars

---------------------------------------------------------------------------
(* Properties *)

\* The request went through authMiddleware and its response is out.
Gated(r) == r.phase = "done" /\ r.gated

\* Neither source carries a token.
NoTokenCarried(r) == r.header.scheme # "Bearer" /\ r.cookie = NoToken

\* The token of the first source that carries one.
FirstPresent(r) ==
  IF r.header.scheme = "Bearer" THEN r.header.token ELSE r.cookie

Has(seq, x) == \E i \in DOMAIN seq : seq[i] = x

LoginDone(r) ==
  /\ r.phase = "done"
  /\ r.endpoint = "POST /auth/login"
  /\ r.username # ""
  /\ r.password # ""

\* C1: a request that reaches authMiddleware without a Bearer header and
\* without an adminToken cookie is answered 401 'Authentication required';
\* next() is not called, req.admin stays unset, and the step changes neither
\* the issued tokens nor the audit log.
C1_MissingTokenRejected ==
  [][ (req.phase = "idle" /\ Gated(req') /\ NoTokenCarried(req'))
        => /\ req'.status = 401
           /\ req'.error = "Authentication required"
           /\ ~req'.nextCalled
           /\ req'.admin = NoPayload
           /\ UNCHANGED <<issued, logDir, logFiles>> ]_vars

C1_Witness ==
  /\ Gated(req)
  /\ NoTokenCarried(req)
  /\ req.status = 401

\* C2: a request whose token verifyToken reports invalid or expired is
\* answered 401 'Invalid or expired token', a message other than the
\* missing-token one; next() is not called and req.admin stays unset.
C2_InvalidTokenRejected ==
  (/\ Gated(req)
   /\ extractToken(req.header, req.cookie) # NoToken
   /\ verifyToken(env, extractToken(req.header, req.cookie), now).kind = "null")
    => /\ req.status = 401
       /\ req.error = "Invalid or expired token"
       /\ req.error # "Authentication required"
       /\ ~req.nextCalled
       /\ req.admin = NoPayload

C2_Witness ==
  /\ Gated(req)
  /\ req.header = Bearer(Forged)
  /\ req.status = 401
  /\ req.error = "Invalid or expired token"

\* C3: the token is the Bearer header's when that header is present and the
\* adminToken cookie's otherwise; the request is answered as missing a token
\* exactly when neither source carries one, so a valid cookie without a
\* Bearer header lets the request through.
C3_FirstPresentWins ==
  Gated(req) =>
    LET v == verifyToken(env, FirstPresent(req), now)
    IN  /\ (req.error = "Authentication required") <=> NoTokenCarried(req)
        /\ (req.cookie # NoToken) => (req.error # "Authentication required")
        /\ (~NoTokenCarried(req) /\ v.kind = "payload")
             => (req.nextCalled /\ req.admin = PayloadOf(FirstPresent(req)))
        /\ (~NoTokenCarried(req) /\ v.kind = "null")
             => (~req.nextCalled /\ req.error = "Invalid or expired token")

C3_Witness ==
  /\ Gated(req)
  /\ req.header.scheme # "Bearer"
  /\ req.cookie \in issued
  /\ req.nextCalled
  /\ req.admin = PayloadOf(req.cookie)

\* C4: a handler of /dashboard, /users, /characters, /guilds, /items,
\* /transactions, /arena, /audit-logs, /auth/me or /system/broadcast runs
\* only for a request whose token was issued by the server and verifies, with
\* req.admin.username the username of that token; the only endpoints of the
\* router whose handler runs without a verified token are /auth/login,
\* /auth/logout and /health.
C4_HandlersBehindGate ==
  LET protected == {"/dashboard", "/users", "/characters", "/guilds", "/items",
                    "/transactions", "/arena", "GET /audit-logs",
                    "GET /auth/me", "POST /system/broadcast"}
      open == {"POST /auth/login", "POST /auth/logout", "GET /health"}
      verified == /\ FirstPresent(req) \in issued
                  /\ verifyToken(env, FirstPresent(req), now).kind = "payload"
  IN  /\ Endpoints = protected \cup open
      /\ (req.phase = "done" /\ req.nextCalled /\ req.endpoint \in protected)
           => /\ verified
              /\ req.admin # NoPayload
              /\ req.admin.username = FirstPresent(req).username
      /\ (req.phase = "done" /\ req.nextCalled /\ req.endpoint \in Endpoints
          /\ ~verified)
           => req.endpoint \in open

C4_Witness ==
  /\ req.phase = "done"
  /\ req.endpoint = "/characters"
  /\ req.nextCalled
  /\ req.admin.username = "root"
  /\ req.status = 200

\* C5: verifyToken returns an identity or null for every token and every
\* configuration, so a request with a token that is not valid is answered
\* 401 by authMiddleware.
C5_VerifierNeverThrows ==
  (Gated(req) /\ ~NoTokenCarried(req))
    => /\ verifyToken(env, FirstPresent(req), now).kind \in {"null", "payload"}
       /\ (FirstPresent(req) \notin issued => req.status = 401)

\* C6: without a signing secret generateToken fails and produces no token,
\* and a login, also one with the right credentials, answers without a token
\* and without an adminToken cookie.
C6_NoSecretNoToken ==
  env.JWT_SECRET = Unset =>
    /\ \A u \in Usernames : generateToken(env, u, now).threw
    /\ \A u \in Usernames : generateToken(env, u, now).token = NoToken
    /\ issued = {}
    /\ LoginDone(req) => (req.token = NoToken /\ req.setCookie = NoToken)

C6_Witness ==
  /\ env.JWT_SECRET = Unset
  /\ LoginDone(req)
  /\ req.isValid
  /\ req.status = 500
  /\ req.token = NoToken

\* The lifetime the configuration gives a token, in ticks.
Lifetime == ms(IF env.JWT_EXPIRES_IN = Unset THEN "24h" ELSE env.JWT_EXPIRES_IN)

\* C7 as stated, on the tokens the login handler issues: with a secret and a
\* positive lifetime, the token of generateToken(u) verifies at the clock
\* reading of its issuance, with username u.
C7_RoundTripPositiveLifetime ==
  (/\ env.JWT_SECRET # Unset
   /\ Lifetime.ok
   /\ Lifetime.ticks > 0
   /\ LoginDone(req)
   /\ req.status = 200)
    => LET v == verifyToken(env, req.token, now)
       IN  v.kind = "payload" /\ v.payload.username = req.username

\* C7 amended: with a secret and a lifetime of at least one second, the token
\* of generateToken(u) verifies at the clock reading of its issuance, with
\* username u.
C7_RoundTripWholeSecond ==
  (env.JWT_SECRET # Unset /\ Lifetime.ok /\ Lifetime.ticks >= TicksPerSec) =>
    /\ \A u \in Usernames \ {""} :
         LET g == generateToken(env, u, now)
             v == verifyToken(env, g.token, now)
         IN  ~g.threw /\ v.kind = "payload" /\ v.payload.username = u
    /\ (LoginDone(req) /\ req.status = 200) =>
         LET v == verifyToken(env, req.token, now)
         IN  v.kind = "payload" /\ v.payload.username = req.username

C7_Witness ==
  /\ LoginDone(req)
  /\ req.status = 200
  /\ Lifetime.ticks >= TicksPerSec
  /\ verifyToken(env, req.token, now).payload.username = "root"

\* C8: an issued token is invalid to verifyToken at every clock reading from
\* its expiresAt on, and under a zero or negative lifetime no request passes
\* the gate.
C8_ExpiredStaysInvalid ==
  /\ \A t \in issued :
       \A later \in now .. MaxClock :
         (now >= t.exp * TicksPerSec) => verifyToken(env, t, later).kind = "null"
  /\ (Lifetime.ok /\ Lifetime.ticks <= 0) => ~(Gated(req) /\ req.nextCalled)

C8_Witness ==
  /\ Gated(req)
  /\ FirstPresent(req) \in issued
  /\ now >= FirstPresent(req).exp * TicksPerSec
  /\ FirstPresent(req).exp > FirstPresent(req).iat
  /\ req.status = 401
  /\ req.error = "Invalid or expired token"

\* C9: validateAdminCredentials is true exactly when both credentials are
\* configured and the username and the password equal the configured ones;
\* with one of them not configured it is false for every input.
C9_CredentialGate ==
  LET right(u, p) == /\ env.ADMIN_USERNAME # Unset
                     /\ env.ADMIN_PASSWORD # Unset
                     /\ u = env.ADMIN_USERNAME
                     /\ p = env.ADMIN_PASSWORD
  IN  /\ \A u \in Usernames, p \in Passwords :
           validateAdminCredentials(env, u, p) <=> right(u, p)
      /\ (req.endpoint = "POST /auth/login" /\ req.phase \in {"await", "done"}
          /\ req.username # "" /\ req.password # "")
           => (req.isValid <=> right(req.username, req.password))

C9_Witness ==
  /\ req.phase = "await"
  /\ req.isValid
  /\ req.username = env.ADMIN_USERNAME
  /\ req.password = env.ADMIN_PASSWORD

\* C10: a failure of mkdirSync or appendFileSync inside logAuditAction is
\* logged and goes no further: the console line of the action is still
\* written and the handler answers as it does when the write succeeds (the
\* login 200 with the token and the cookie, or 401; the broadcast 200).
C10_AuditFailureSwallowed ==
  LET failed == Has(req.errors, "[Audit] Failed to write log")
  IN  /\ LoginDone(req) =>
           /\ req.status = (IF req.isValid THEN 200 ELSE 401)
           /\ req.isValid => (req.token \in issued /\ req.setCookie = req.token)
           /\ req.console =
                << <<"[Audit]", IF req.isValid THEN req.username ELSE "anonymous",
                     IF req.isValid THEN "LOGIN_SUCCESS" ELSE "LOGIN_FAILED">> >>
           /\ ~Has(req.errors, "[Auth] Login error")
           /\ (env.AUDIT_LOG_ENABLED = "true" /\ req.fault = "append") => failed
      /\ (req.phase = "done" /\ req.endpoint = "POST /system/broadcast"
          /\ req.nextCalled)
           => /\ failed => req.status = 200
              /\ (req.status = 200) =>
                   req.console = << <<"[Audit]", req.admin.username,
                                      "SYSTEM_BROADCAST">> >>
              /\ ~(failed /\ Has(req.errors, "[System] Broadcast error"))

C10_Witness ==
  /\ LoginDone(req)
  /\ req.isValid
  /\ req.fault \in {"mkdir", "append"}
  /\ Has(req.errors, "[Audit] Failed to write log")
  /\ req.status = 200
  /\ Len(req.console) = 1

---------------------------------------------------------------------------
(* Properties of the audit log *)

\* The step ran a handler to its response, and the handler called
\* logAuditAction: the login past its await, and the broadcast and the
\* character update that answered 200.
Called(r, q) ==
  /\ r.phase # "done"
  /\ q.phase = "done"
  /\ \/ LoginDone(q)
     \/ /\ q.endpoint \in {"POST /system/broadcast", CharacterUpdate}
        /\ q.nextCalled
        /\ q.status = 200

\* The entry of the call that the handler of request q made at clock
\* reading t.
CallEntry(q, t) ==
  IF q.endpoint = "POST /auth/login"
    THEN IF q.isValid
           THEN EntryOf(q.username, "LOGIN_SUCCESS", NoOptions, t)
           ELSE EntryOf("anonymous", "LOGIN_FAILED",
                        [NoOptions EXCEPT !.metadata.note = q.username], t)
    ELSE IF q.endpoint = CharacterUpdate
      THEN EntryOf(q.admin.username, "CHARACTER_UPDATE",
                   [NoOptions EXCEPT !.target = "character"], t)
      ELSE EntryOf(q.admin.username, "SYSTEM_BROADCAST",
                   [NoOptions EXCEPT !.metadata.note = "broadcast"], t)

\* The console line of the call.
CallLine(q) == <<"[Audit]", CallEntry(q, 0).admin, CallEntry(q, 0).action>>

IsPrefix(s, t) == Len(s) <= Len(t) /\ SubSeq(t, 1, Len(s)) = s

\* C11: with AUDIT_LOG_ENABLED other than 'true', a call of logAuditAction
\* returns normally (the handler goes on to its usual answer), creates no
\* log directory, leaves every file as it was, and the console line of the
\* action is written.
C11_DisabledWritesNothing ==
  [][ (env.AUDIT_LOG_ENABLED # "true" /\ Called(req, req'))
        => /\ UNCHANGED <<logDir, logFiles>>
           /\ req'.console = <<CallLine(req')>>
           /\ req'.status # 500
           /\ ~Has(req'.errors, "[Audit] Failed to write log") ]_vars

C11_Witness ==
  /\ env.AUDIT_LOG_ENABLED = "false"
  /\ LoginDone(req)
  /\ req.status = 200
  /\ req.console = << <<"[Audit]", "root", "LOGIN_SUCCESS">> >>
  /\ ~logDir
  /\ TotalLines(logFiles) = 0

\* C12: with persistence enabled, a call of logAuditAction whose write does
\* not fail puts the line of its own entry at the end of the day's file and
\* changes nothing else, so the lines of a file are the entries of the calls
\* in the order of the calls; no step puts a line anywhere but at the end.
C12_AppendedInCallOrder ==
  [][ /\ \A d \in Days :
           \/ logFiles'[d] = logFiles[d]
           \/ /\ Called(req, req')
              /\ logFiles'[d] =
                   Append(logFiles[d], JSONstringify(CallEntry(req', now)))
      /\ (env.AUDIT_LOG_ENABLED = "true" /\ Called(req, req')
          /\ req'.fault = "none")
           => logFiles' =
                [logFiles EXCEPT ![dateOf(now')] =
                   Append(@, JSONstringify(CallEntry(req', now)))] ]_vars

C12_Witness ==
  /\ req.phase = "done"
  /\ req.endpoint = "POST /system/broadcast"
  /\ \E d \in Days :
       /\ Len(logFiles[d]) = 2
       /\ logFiles[d][1].action = "LOGIN_SUCCESS"
       /\ logFiles[d][2] = JSONstringify(CallEntry(req, now))

\* C13: the content of every daily file after a step is an extension of
\* its content before the step, and a read of the log leaves every file as
\* it was.
C13_AppendOnly ==
  [][ /\ \A d \in Days : IsPrefix(logFiles[d], logFiles'[d])
      /\ (req'.endpoint = "GET /audit-logs" /\ req.phase # "done")
           => logFiles' = logFiles ]_vars

C13_Witness ==
  /\ req.phase = "done"
  /\ req.endpoint = "GET /audit-logs"
  /\ req.status = 200
  /\ Len(req.body) = 2
  /\ TotalLines(logFiles) = 2

\* C14: every entry of the file of day D has a timestamp of day D.
C14_FileDayIsEntryDay ==
  \A d \in Days :
    \A i \in DOMAIN logFiles[d] :
      logFiles[d][i].wellFormed
        => dateOf(JSONparse(logFiles[d][i]).value.timestamp) = d

\* The response of a read of the log is out.
ReadDone(r) ==
  r.phase = "done" /\ r.endpoint = "GET /audit-logs" /\ r.nextCalled

\* Day d is inside the range of read r, both bounds inclusive and an omitted
\* bound ignored.
Within(d, r) ==
  /\ r.startDate = NoDate \/ r.startDate <= d
  /\ r.endDate = NoDate \/ d <= r.endDate

\* Read r met a file that cannot be read: the file exists and is in range.
Unreadable(r) ==
  /\ r.badFile \in Days
  /\ logFiles[r.badFile] # <<>>
  /\ Within(r.badFile, r)

\* The positions <<day, line number>> of the well-formed lines, and of the
\* corrupt lines, in the files of a set of days.
GoodLines(days) ==
  { p \in days \X (1 .. MaxLogLines) :
      p[2] <= Len(logFiles[p[1]]) /\ logFiles[p[1]][p[2]].wellFormed }

BadLines(days) ==
  { p \in days \X (1 .. MaxLogLines) :
      p[2] <= Len(logFiles[p[1]]) /\ ~logFiles[p[1]][p[2]].wellFormed }

LineAt(p) == logFiles[p[1]][p[2]]

Count(seq, x) == Cardinality({ i \in DOMAIN seq : seq[i] = x })

\* body holds exactly the entries of the well-formed lines of the files of
\* the days: each as many times as it is written there.
HoldsExactly(body, days) ==
  /\ Len(body) = Cardinality(GoodLines(days))
  /\ \A p \in GoodLines(days) :
       Count(body, JSONparse(LineAt(p)).value) =
         Cardinality({ q \in GoodLines(days) : LineAt(q) = LineAt(p) })

\* C15: a read that returns gives exactly the entries of the files of the
\* days D with startDate <= D <= endDate, an omitted bound being ignored:
\* every entry of a file in the range, and no entry of a file outside it.
C15_RangeInclusive ==
  (ReadDone(req) /\ req.status = 200)
    => HoldsExactly(req.body, { d \in Days : Within(d, req) })

C15_Witness ==
  /\ ReadDone(req)
  /\ req.status = 200
  /\ req.startDate = 0
  /\ req.endDate = 0
  /\ GoodLines({0}) # {}
  /\ GoodLines({1}) # {}
  /\ Len(req.body) = Cardinality(GoodLines({0}))

\* C16: the entries a read returns are in non-increasing order of
\* timestamp, whatever the order of the directory listing and of the lines.
C16_NewestFirst ==
  (ReadDone(req) /\ req.status = 200)
    => \A i, j \in DOMAIN req.body :
         i < j => req.body[i].timestamp >= req.body[j].timestamp

C16_Witness ==
  /\ ReadDone(req)
  /\ req.status = 200
  /\ Len(req.body) = 2
  /\ req.body[1].timestamp > req.body[2].timestamp
  /\ \E d \in Days : Len(logFiles[d]) = 2

\* C17: corrupt lines do not abort a read and hide nothing: when the file
\* system does not fail, the read answers 200 with exactly the entries of the
\* well-formed lines of the files in range, and warns once for each corrupt
\* line of those files.
C17_CorruptLineSkipped ==
  (ReadDone(req) /\ req.fault = "none" /\ ~Unreadable(req))
    => /\ req.status = 200
       /\ HoldsExactly(req.body, { d \in Days : Within(d, req) })
       /\ req.warnings = Cardinality(BadLines({ d \in Days : Within(d, req) }))
       /\ ~Has(req.errors, "[Audit] Read logs error")

C17_Witness ==
  /\ ReadDone(req)
  /\ req.status = 200
  /\ req.warnings = 1
  /\ Len(req.body) = 1
  /\ \E d \in Days :
       /\ Within(d, req)
       /\ Len(logFiles[d]) = 2
       /\ BadLines({d}) # {}
       /\ GoodLines({d}) # {}

\* C18: when one file in the range cannot be read and another one can, the
\* read warns and still answers 200 with the entries of the readable files
\* in the range.
C18_UnreadableFileSkipped ==
  LET others == { d \in Days : Within(d, req) /\ d # req.badFile }
  IN  (ReadDone(req) /\ req.fault = "none" /\ Unreadable(req)
       /\ GoodLines(others) # {})
        => /\ req.status = 200
           /\ HoldsExactly(req.body, others)

\* C19: a request that reaches the handler behind auditMiddleware(prefix) is
\* recorded exactly when its method is POST, PUT, PATCH or DELETE and its
\* status at the moment of sending is below 400; the entry has action
\* '<prefix>_<METHOD>', the admin that authMiddleware attached or 'unknown',
\* and the path, the parameters and the status in its metadata.  A request
\* answered with an error status, or rejected by authMiddleware, is not
\* recorded.
C19_RecordsSuccessfulMutations ==
  [][ (req.phase # "done" /\ req'.phase = "done"
       /\ req'.endpoint = AuditedMount)
        => LET q == req'
               recorded == q.console # <<>>
               label == CASE q.method = "POST" -> "ITEMS_POST"
                          [] q.method = "PUT" -> "ITEMS_PUT"
                          [] q.method = "PATCH" -> "ITEMS_PATCH"
                          [] q.method = "DELETE" -> "ITEMS_DELETE"
                          [] OTHER -> "none"
               who == IF q.gated THEN FirstPresent(q).username ELSE "unknown"
               entry == [timestamp |-> now, action |-> label, admin |-> who,
                         target |-> NoTarget, changes |-> NoChanges,
                         metadata |-> [path |-> "/7", params |-> "id=7",
                                       statusCode |-> q.status, note |-> ""]]
           IN  /\ recorded <=>
                    /\ q.nextCalled
                    /\ q.method \in {"POST", "PUT", "PATCH", "DELETE"}
                    /\ q.status < 400
               /\ recorded => q.console = << <<"[Audit]", who, label>> >>
               /\ ~recorded => logFiles' = logFiles
               /\ (recorded /\ env.AUDIT_LOG_ENABLED = "true"
                   /\ q.fault = "none")
                    => logFiles' = [logFiles EXCEPT ![dateOf(now')] =
                                      Append(@, JSONstringify(entry))] ]_vars

C19_Witness ==
  /\ req.phase = "done"
  /\ req.endpoint = AuditedMount
  /\ req.gated
  /\ req.method = "DELETE"
  /\ req.status = 302
  /\ \E d \in Days :
       /\ Len(logFiles[d]) = 1
       /\ logFiles[d][1].action = "ITEMS_DELETE"
       /\ logFiles[d][1].admin = "root"
       /\ logFiles[d][1].metadata.statusCode = 302

\* The CHARACTER_UPDATE entries among the entries of a sequence.
Updates(body) ==
  { i \in DOMAIN body : body[i].action = "CHARACTER_UPDATE" }

\* C20: with persistence enabled and a file system that does not fail, the
\* token of a login carries the logged-in username; a character update
\* called with it and answered 200 appends one CHARACTER_UPDATE entry under
\* that username; and GET /audit-logs for today's date then answers with the
\* CHARACTER_UPDATE entries of today's file, each once: exactly one, under
\* the logged-in username, after one update.
C20_UpdateShowsInTodaysLog ==
  [][ /\ (req.phase = "await" /\ req'.phase = "done" /\ req'.status = 200)
           => /\ req'.token \in issued'
              /\ req'.token.username = req'.username
              /\ req'.username = env.ADMIN_USERNAME
      /\ (Called(req, req') /\ req'.endpoint = CharacterUpdate
          /\ req'.fault = "none")
           => /\ FirstPresent(req') \in issued
              /\ logFiles' =
                   [logFiles EXCEPT ![dateOf(now')] =
                      Append(@, JSONstringify(
                                  EntryOf(FirstPresent(req').username,
                                          "CHARACTER_UPDATE",
                                          [NoOptions EXCEPT !.target = "character"],
                                          now)))]
      /\ (req.phase # "done" /\ ReadDone(req') /\ req'.fault = "none"
          /\ req'.startDate = dateOf(now) /\ req'.endDate = dateOf(now)
          /\ req'.badFile # dateOf(now))
           => LET today == logFiles[dateOf(now)]
                  written == { i \in DOMAIN today :
                                 today[i].action = "CHARACTER_UPDATE" }
              IN  /\ req'.status = 200
                  /\ Cardinality(Updates(req'.body)) = Cardinality(written)
                  /\ \A i \in Updates(req'.body) :
                       /\ req'.body[i].admin = env.ADMIN_USERNAME
                       /\ \E k \in written :
                            today[k] = JSONstringify(req'.body[i]) ]_vars

C20_Witness ==
  /\ ReadDone(req)
  /\ req.status = 200
  /\ req.startDate = dateOf(now)
  /\ req.endDate = dateOf(now)
  /\ Len(req.body) = 2
  /\ Cardinality(Updates(req.body)) = 1
  /\ \E i \in DOMAIN req.body :
       req.body[i].action = "CHARACTER_UPDATE" /\ req.body[i].admin = "root"
  /\ \E i \in DOMAIN req.body :
       req.body[i].action = "LOGIN_SUCCESS" /\ req.body[i].admin = "root"

---------------------------------------------------------------------------
(* Properties of the entity handlers *)

\* The handler in slot i takes its last step, from the await of its update
\* call to a response with status 200.
Wrote(i) ==
  /\ flight[i].pc = "update"
  /\ flight'[i].pc = "done"
  /\ flight'[i].status = 200

\* The step appends exactly one line to the log, and that line is the text
\* of an entry whose changes map is m.
AppendsChanges(m) ==
  \E d \in Days :
    /\ Len(logFiles'[d]) = Len(logFiles[d]) + 1
    /\ \A p \in 1 .. Len(logFiles[d]) : logFiles'[d][p] = logFiles[d][p]
    /\ \A o \in Days \ {d} : logFiles'[o] = logFiles[o]
    /\ LET v == JSONparse(logFiles'[d][Len(logFiles'[d])])
       IN  /\ ~v.threw
           /\ v.value.changes = [given |-> TRUE, map |-> m]

\* The fields of data whose value differs from the one the row holds, each
\* with the row's value and the new one.
Differing(row, data) ==
  { <<k, row[k], data[k]>> :
      k \in { f \in DOMAIN row : data[f] # Undef /\ row[f] # data[f] } }

\* C21: the changes map that a PATCH route records has a key for exactly
\* the submitted fields whose new value differs from the value stored before
\* the update, with from the stored value and to the new one, and no key for
\* an unchanged field.
C21_DiffIntegrity ==
  [][ \A i \in DOMAIN flight :
        Wrote(i) /\ flight[i].handler \in PatchRoutes
          => AppendsChanges(Differing(store[TableOf(flight[i].handler)],
                                      flight[i].data)) ]_vars

\* C22: the append of an audited action's entry is complete when the
\* response of its request is emitted: at the response of an update that
\* answers 200, a read of the log for today, under every listing of the
\* directory, returns the entry of that update.
C22_AppendBeforeResponse ==
  [][ \A i \in DOMAIN flight :
        Wrote(i)
          => \A listing \in Listings(logFiles') :
               LET today == dateOf(now')
                   body == readAuditLogs(logDir', logFiles', today, today,
                                         listing, NoDay, "none")
               IN  /\ ~body.threw
                   /\ Has(body.entries,
                          EntryOf(env.ADMIN_USERNAME,
                                  AuditActionOf(flight[i].handler),
                                  auditOptionsOf(flight[i]), now)) ]_vars

\* A currency grant has answered 200 with its entry in the log while
\* another request on the same character is suspended at its update.
C22_Witness ==
  /\ flight[1].pc = "done"
  /\ flight[1].status = 200
  /\ flight[1].handler = AddCurrency
  /\ flight[2].pc = "update"
  /\ \E d \in Days :
       /\ Len(logFiles[d]) = 1
       /\ logFiles[d][1].action = "CHARACTER_ADD_CURRENCY"
       /\ logFiles[d][1].changes.map = {<<"gold", 0, 1>>}

---------------------------------------------------------------------------
(* Properties of the login and of the tokens in use *)

\* The step ends a POST /auth/login request.
LoginEnds ==
  /\ req.phase # "done"
  /\ req'.phase = "done"
  /\ req'.endpoint = "POST /auth/login"

\* The two outcomes of the login that the claim names, on the step that
\* ends the request: the 401 of credentials that fail validation, and the
\* {token, user} of valid ones.
LoginRejected ==
  /\ req'.status = 401
  /\ req'.token = NoToken
  /\ req'.setCookie = NoToken
  /\ issued' = issued
  /\ req'.console = << <<"[Audit]", "anonymous", "LOGIN_FAILED">> >>

LoginAccepted ==
  /\ req'.status = 200
  /\ req'.token # NoToken
  /\ req'.user = req'.username
  /\ req'.setCookie = req'.token
  /\ issued' = issued \cup {req'.token}
  /\ req'.token = generateToken(env, req'.username, now).token
  /\ req'.console = << <<"[Audit]", req'.username, "LOGIN_SUCCESS">> >>

\* The login ends without a token, a cookie or a call of logAuditAction.
LoginRefused(status) ==
  /\ req'.status = status
  /\ req'.token = NoToken
  /\ req'.setCookie = NoToken
  /\ issued' = issued
  /\ req'.console = <<>>

C24_NoRevocation ==
  /\ \A t \in issued :
       LET live == clockTimestamp(now) < t.exp
           byHeader == authMiddleware(env, Bearer(t), NoToken, now)
           byCookie == authMiddleware(env, NoHeader, t, now)
       IN  /\ (verifyToken(env, t, now).kind = "payload") <=> live
           /\ live => /\ verifyToken(env, t, now).payload.username = t.username
                      /\ byHeader.nextCalled /\ ~byHeader.threw
                      /\ byHeader.admin.username = t.username
                      /\ byCookie.nextCalled /\ ~byCookie.threw
  /\ (Gated(req) /\ FirstPresent(req) \in issued
        /\ clockTimestamp(now) < FirstPresent(req).exp)
       => req.nextCalled /\ req.admin.username = FirstPresent(req).username

\* A logout has been answered a second or more after the login, and the
\* token of the login has not expired.
C24_Witness ==
  /\ req.phase = "done"
  /\ req.endpoint = "POST /auth/logout"
  /\ req.cookieCleared
  /\ \E t \in issued :
       /\ clockTimestamp(now) > t.iat
       /\ clockTimestamp(now) < t.exp
       /\ authMiddleware(env, Bearer(t), NoToken, now).nextCalled

---------------------------------------------------------------------------
(* Properties of concurrent writers and handlers *)

\* C25: with several writers appending to the same daily file, every line
\* of the file is the complete text of the entry of one record call: the
\* write of a process adds its line at the end and leaves every other line
\* as it was, so no two entries share a line and none is lost or
\* overwritten.
C25_LinesWhole ==
  [][ /\ \A p \in DOMAIN flight :
           (flight[p].pc = "open" /\ flight'[p].pc = "idle")
             => logFiles' = [logFiles EXCEPT
                               ![flight[p].logPath] =
                                 Append(@, JSONstringify(flight[p].entry))]
      /\ \A d \in Days : \A n \in 1 .. Len(logFiles'[d]) :
           /\ ~JSONparse(logFiles'[d][n]).threw
           /\ JSONstringify(JSONparse(logFiles'[d][n]).value) = logFiles'[d][n]
      /\ \A d \in Days : Len(logFiles'[d]) >= Len(logFiles[d]) ]_vars

\* A process opened the file when it was empty and has not written yet,
\* while the line of another process has reached the file.
C25_Witness ==
  \E p \in DOMAIN flight :
    /\ flight[p].pc = "open"
    /\ flight[p].size = 0
    /\ Len(logFiles[flight[p].logPath]) = 1

\* C26: under every interleaving of the requests in flight on the same
\* character, each from that an update or a currency grant records is the
\* value the datastore held immediately before that request's update was
\* applied, and each to is the value it holds immediately after.
C26_TrueBeforeAfter ==
  [][ \A i \in DOMAIN flight :
        Wrote(i)
          => \A d \in Days :
               Len(logFiles'[d]) > Len(logFiles[d])
                 => \A c \in logFiles'[d][Len(logFiles'[d])].changes.map :
                      /\ c[2] = store[TableOf(flight[i].handler)][c[1]]
                      /\ c[3] = store'[TableOf(flight[i].handler)][c[1]] ]_vars

\* C27: every mutation is audited.  A change-rank handler that has changed
\* a row of the guild, by its demotion of the leader or by its update, has
\* called logAuditAction by the time it answers, also when it answers 500.
C27_EveryMutationAudited ==
  \A i \in DOMAIN flight :
    (flight[i].pc = "done" /\ (flight[i].changed > 0 \/ flight[i].status = 200))
      => flight[i].console = << <<"[Audit]", env.ADMIN_USERNAME,
                                  "GUILD_CHANGE_RANK">> >>

\* The members of the guild that hold the rank LEADER.
Leaders(members) == { m \in DOMAIN members : members[m] = "LEADER" }

\* C28: a guild with at most one LEADER has at most one LEADER after every
\* step of every change-rank request, interleaved or failed ones included;
\* the demotion turns the leader into an OFFICER, and a promotion that
\* answers 200 leaves the promoted member as the only LEADER.
C28_OneLeader ==
  [][ Cardinality(Leaders(store.guildMember)) <= 1
        => /\ Cardinality(Leaders(store'.guildMember)) <= 1
           /\ \A i \in DOMAIN flight :
                /\ (flight[i].pc = "demote" /\ flight'[i].pc = "update")
                     => \A m \in Leaders(store.guildMember) :
                          store'.guildMember[m] = "OFFICER"
                /\ (flight[i].pc = "update" /\ flight'[i].pc = "done"
                    /\ flight'[i].status = 200 /\ flight[i].rank = "LEADER")
                     => Leaders(store'.guildMember) = {flight[i].characterId}
    ]_vars

\* No two rankings of the league share a rank.
Unique(rankings) ==
  \A a, b \in DOMAIN rankings : a # b => rankings[a] # rankings[b]

\* C29: if no two rankings of the league share a rank, then after every
\* step of every adjust request, interleaved ones included, no two rankings
\* share a rank and none holds the temporary rank; and an adjustment that
\* answers 200 leaves the character at newRank and the previous holder of
\* newRank, if there was one, at the rank the character had.
C29_RanksUnique ==
  [][ Unique(store.arenaRanking)
        => /\ Unique(store'.arenaRanking)
           /\ \A c \in DOMAIN store'.arenaRanking :
                store'.arenaRanking[c] # TempRank
           /\ \A i \in DOMAIN flight :
                (flight[i].pc = "update" /\ flight'[i].pc = "done"
                 /\ flight'[i].status = 200)
                  => /\ store'.arenaRanking[flight[i].characterId]
                          = flight[i].newRank
                     /\ \A h \in DOMAIN store.arenaRanking \ {flight[i].characterId} :
                          store.arenaRanking[h] = flight[i].newRank
                            => store'.arenaRanking[h]
                                 = store.arenaRanking[flight[i].characterId]
    ]_vars

---------------------------------------------------------------------------
(* Properties of the database module *)

\* An initializeDatabase call is suspended between the construction of the
\* client and the outcome of its connection test.
Connecting == \E i \in DOMAIN flight : flight[i].pc = "connect"

\* C30: outside a running initialisation getPrisma returns a client only
\* if the connection test of an initializeDatabase call has passed and no
\* closeDatabase has run since, and throws otherwise, in particular after
\* a failed initializeDatabase; an initializeDatabase call that returns at
\* once returns a tested client; and closeDatabase disconnects the client
\* before it closes the tunnel and leaves both handles null.
C30_ClientOnlyAfterInit ==
  [][ /\ (~Connecting' /\ ~getPrisma(prisma').threw) => prisma' = "connected"
      /\ \A i \in DOMAIN flight :
           /\ (flight[i].pc = "idle" /\ flight'[i].pc = "done" /\ ~Connecting
               /\ flight'[i].fn = "initializeDatabase" /\ ~flight'[i].threw)
                => flight'[i].returned = "connected"
           /\ (flight'[i].pc = "close" /\ flight'[i].fn = "closeDatabase"
               /\ flight[i].pc # "close")
                => prisma' = "null"
           /\ (flight[i].pc = "close" /\ flight'[i].pc = "done")
                => tunnelConnection' = "null" ]_vars

====
